---- MODULE Spec2Model ----
(***************************************************************************)
(* A model of the ratio-calculation engine of profit_scout_pipeline:      *)
(* services/ratio_calculator/src/ratio_calculator.py (the "service"),     *)
(* jobs/ratio_calculator/src/main.py (the "job") and the field            *)
(* consolidator of jobs/financial_extraction/src/main.py.                 *)
(*                                                                         *)
(* Dates are day numbers (integers).  Python's None is the string "None". *)
(***************************************************************************)
EXTENDS Integers, Sequences, FiniteSets, TLC

None == "None"

Impls == {"service", "job"}

Abs(x) == IF x < 0 THEN -x ELSE x

(***************************************************************************)
(* ----------------------------- Period resolver ------------------------ *)
(* fetch_bigquery_data(ticker, report_end_date, prior_period)             *)
(***************************************************************************)

\* timedelta(days=...) constants of the two implementations
PRIOR_SHIFT_DAYS == 90
FALLBACK_DAYS == 30
SVC_PRIOR_WINDOW_DAYS == 45
JOB_PRIOR_WINDOW_DAYS == 30

\* the report_end_date every modelled request targets
TargetDate == 200

\* period_end_date values a stored balance-sheet row may carry: the edges of
\* every window around TargetDate and around TargetDate - 90
DateSamples ==
    { TargetDate - 136, TargetDate - 135, TargetDate - 121, TargetDate - 120,
      TargetDate - 95, TargetDate - 90, TargetDate - 60, TargetDate - 59,
      TargetDate - 46, TargetDate - 45, TargetDate - 31, TargetDate - 30,
      TargetDate - 10, TargetDate, TargetDate + 10, TargetDate + 30,
      TargetDate + 31 }

Tickers == {"AAA", "BBB"}

\* largest number of balance-sheet rows in a modelled store
MaxRecords == 2

\* outcome of one bq_client.query(...).to_dataframe() call
QueryOutcomes == {"ok", "api_error", "other_error"}

\* rows of `store` for `ticker` with start <= period_end_date <= end
InWindow(store, ticker, start, end) ==
    { r \in store : r.ticker = ticker /\ start <= r.date /\ r.date <= end }

\* ORDER BY date_diff_days ASC LIMIT 1: the rows the query may return
\* (more than one when two rows are equally close)
Closest(rows, target) ==
    { r \in rows : \A q \in rows : Abs(r.date - target) <= Abs(q.date - target) }

\* the service's query_template with the given parameters
SvcQuery(store, ticker, start, end, target) ==
    Closest(InWindow(store, ticker, start, end), target)

\* the job's run_query: the ORDER BY sits inside the CTE and the outer
\* SELECT ... LIMIT 1 has none, so any row of the window may come back
JobQuery(store, ticker, start, end) ==
    InWindow(store, ticker, start, end)

Found(r, tiers) == [kind |-> "record", date |-> r.date, tiers |-> tiers]
NotFound(tiers) == [kind |-> "none", date |-> 0, tiers |-> tiers]
Raised(tiers)   == [kind |-> "raise", date |-> 0, tiers |-> tiers]
NoCall(kind)    == [kind |-> kind, date |-> 0, tiers |-> <<>>]

\* what one query yields given its outcome: the rows, or the way it failed
\* (service: GoogleAPICallError is re-raised, any other exception returns None)
SvcAfter(rows, outcome, tiers) ==
    IF outcome = "api_error" THEN {Raised(tiers)}
    ELSE IF outcome = "other_error" THEN {NotFound(tiers)}
    ELSE IF rows = {} THEN {NotFound(tiers)}
    ELSE { Found(r, tiers) : r \in rows }

\* One attempt of the service's fetch_bigquery_data.  oc[i] is the outcome
\* of the i-th query the attempt issues.  The result is the set of values
\* the attempt may produce; each names the tiers it queried.
SvcPriorFetch(store, ticker, T, oc) ==
    LET pt == T - PRIOR_SHIFT_DAYS
    IN  SvcAfter(SvcQuery(store, ticker, pt - SVC_PRIOR_WINDOW_DAYS,
                          pt + SVC_PRIOR_WINDOW_DAYS, pt),
                 oc[1], <<"prior">>)

\* the tiers collapsed into one range query without the distance ordering
SvcCurrentFetch_RangeOnly(store, ticker, T, oc) ==
    SvcAfter(InWindow(store, ticker, T - FALLBACK_DAYS, T + FALLBACK_DAYS),
             oc[1], <<"exact">>)

SvcCurrentFetch(store, ticker, T, oc) ==
    LET exact == SvcQuery(store, ticker, T, T, T)
    IN  IF oc[1] = "api_error" THEN {Raised(<<"exact">>)}
        ELSE IF oc[1] = "other_error" THEN {NotFound(<<"exact">>)}
        ELSE IF exact # {} THEN { Found(r, <<"exact">>) : r \in exact }
        ELSE SvcAfter(SvcQuery(store, ticker, T - FALLBACK_DAYS,
                               T + FALLBACK_DAYS, T),
                      oc[2], <<"exact", "fallback">>)

FetchService(store, ticker, T, prior, oc) ==
    IF prior THEN SvcPriorFetch(store, ticker, T, oc)
    ELSE SvcCurrentFetch(store, ticker, T, oc)

\* One attempt of the job's fetch_bigquery_data: exact, then fallback, then
\* (prior_period only) the window around T - 90.  Every query failure raises.
JobPriorTier(store, ticker, T, oc) ==
    LET pt == T - PRIOR_SHIFT_DAYS
        rows == JobQuery(store, ticker, pt - JOB_PRIOR_WINDOW_DAYS,
                         pt + JOB_PRIOR_WINDOW_DAYS)
        tiers == <<"exact", "fallback", "prior">>
    IN  IF oc[3] # "ok" THEN {Raised(tiers)}
        ELSE IF rows # {} THEN { Found(r, tiers) : r \in rows }
        ELSE {NotFound(tiers)}

JobFallbackTier(store, ticker, T, prior, oc) ==
    LET rows == JobQuery(store, ticker, T - FALLBACK_DAYS, T + FALLBACK_DAYS)
        tiers == <<"exact", "fallback">>
    IN  IF oc[2] # "ok" THEN {Raised(tiers)}
        ELSE IF rows # {} THEN { Found(r, tiers) : r \in rows }
        ELSE IF prior THEN JobPriorTier(store, ticker, T, oc)
        ELSE {NotFound(tiers)}

FetchJob(store, ticker, T, prior, oc) ==
    LET exact == JobQuery(store, ticker, T, T)
    IN  IF oc[1] # "ok" THEN {Raised(<<"exact">>)}
        ELSE IF exact # {} THEN { Found(r, <<"exact">>) : r \in exact }
        ELSE JobFallbackTier(store, ticker, T, prior, oc)

fetch_bigquery_data(impl, store, ticker, T, prior, oc) ==
    IF impl = "service" THEN FetchService(store, ticker, T, prior, oc)
    ELSE FetchJob(store, ticker, T, prior, oc)

VARIABLES
    rImpl,      \* implementation under test
    rStore,     \* balance-sheet rows: set of [ticker, date]
    rPrior,     \* the prior_period argument
    rOc,        \* outcome of each query the call issued
    rOut        \* result of the call, or "pending"

resVars == <<rImpl, rStore, rPrior, rOc, rOut>>

StoreRows == [ticker : Tickers, date : DateSamples]

\* stores of at most n rows
RECURSIVE StoresUpTo(_)
StoresUpTo(n) ==
    IF n = 0 THEN {{}}
    ELSE LET smaller == StoresUpTo(n - 1)
         IN  smaller \cup { s \cup {r} : s \in smaller, r \in StoreRows }

Stores == StoresUpTo(MaxRecords)

ResolverIdle ==
    /\ rImpl = "service"
    /\ rStore = {}
    /\ rPrior = FALSE
    /\ rOc = <<"ok", "ok", "ok">>
    /\ rOut = NoCall("idle")

ResolverInit ==
    /\ rImpl \in Impls
    /\ rStore \in Stores
    /\ rPrior \in BOOLEAN
    /\ rOc = <<"ok", "ok", "ok">>
    /\ rOut = NoCall("pending")

\* one call fetch_bigquery_data("AAA", TargetDate, rPrior)
Resolve ==
    /\ rOut.kind = "pending"
    /\ \E oc \in [1..3 -> QueryOutcomes] :
         /\ rOc' = oc
         /\ rOut' \in fetch_bigquery_data(rImpl, rStore, "AAA", TargetDate, rPrior, oc)
    /\ UNCHANGED <<rImpl, rStore, rPrior>>

Range(s) == { s[i] : i \in DOMAIN s }

ResolverReturned == rOut.kind \in {"record", "none", "raise"}

HasRecordAt(store, ticker, d) == \E r \in store : r.ticker = ticker /\ r.date = d

\* C5: a prior-period request never runs the exact tier or the T+-30 tier,
\* and never returns a record dated within [T-30, T+30].
C5_PriorSkipsNarrowTiers ==
    (ResolverReturned /\ rPrior) =>
        /\ "exact" \notin Range(rOut.tiers)
        /\ "fallback" \notin Range(rOut.tiers)
        /\ rOut.kind = "record" =>
              ~(TargetDate - FALLBACK_DAYS <= rOut.date
                /\ rOut.date <= TargetDate + FALLBACK_DAYS)

\* C6: for a current-period request, when the store holds a row of the
\* ticker dated exactly T and the exact query succeeds, the call returns a
\* record dated T having queried the exact tier only; and the fallback tier
\* is queried only when no row is dated T.
C6_ExactMatchPriority ==
    (ResolverReturned /\ ~rPrior) =>
        /\ (HasRecordAt(rStore, "AAA", TargetDate) /\ rOc[1] = "ok") =>
              /\ rOut.kind = "record"
              /\ rOut.date = TargetDate
              /\ rOut.tiers = <<"exact">>
        /\ "fallback" \in Range(rOut.tiers) =>
              ~HasRecordAt(rStore, "AAA", TargetDate)

\* an exact row and a row ten days later are both stored, and a record came back
C6_Witness ==
    /\ ~rPrior
    /\ HasRecordAt(rStore, "AAA", TargetDate)
    /\ HasRecordAt(rStore, "AAA", TargetDate + 10)
    /\ rOut.kind = "record"


(***************************************************************************)
(* ----------------------------- Field consolidator --------------------- *)
(* consolidate_data(df, period_end_date), jobs/financial_extraction       *)
(***************************************************************************)

\* A period is a parsed date, None (the <base>_<i>_period_enddate column is
\* absent) or NaT (the column holds text pd.to_datetime(errors='coerce')
\* cannot parse).
DatePeriod(d) == [k |-> "date", d |-> d]
NonePeriod == [k |-> "none", d |-> 0]
NaTPeriod == [k |-> "nat", d |-> 0]

\* pd.Timestamp.min, below every modelled date
TimestampMin == -1

\* candidate['period'] == period_end_date  (NaT equals nothing)
PeriodEq(p, q) ==
    \/ p.k = "date" /\ q.k = "date" /\ p.d = q.d
    \/ p.k = "none" /\ q.k = "none"

\* the sort key: x['period'] if x['period'] is not None else pd.Timestamp.min
SortKey(c) == IF c.period.k = "none" THEN [k |-> "date", d |-> TimestampMin]
              ELSE c.period

\* key(a) < key(b); every comparison with NaT is False
KeyLT(a, b) ==
    /\ SortKey(a).k = "date"
    /\ SortKey(b).k = "date"
    /\ SortKey(a).d < SortKey(b).d

ReverseSeq(s) == [i \in 1..Len(s) |-> s[Len(s) + 1 - i]]

\* listobject.c count_run: length of the run at the head of s, and whether it
\* is a strictly descending one
RECURSIVE RunEnd(_, _, _)
RunEnd(s, n, desc) ==
    IF n >= Len(s) THEN n
    ELSE IF KeyLT(s[n + 1], s[n]) = desc THEN RunEnd(s, n + 1, desc)
    ELSE n

CountRun(s) ==
    IF Len(s) = 1 THEN [n |-> 1, desc |-> FALSE]
    ELSE LET desc == KeyLT(s[2], s[1])
         IN  [n |-> RunEnd(s, 2, desc), desc |-> desc]

ReversePrefix(s, n) ==
    [i \in 1..Len(s) |-> IF i <= n THEN s[n + 1 - i] ELSE s[i]]

\* listobject.c binarysort: the slot of `pivot` in the sorted prefix [l, r)
RECURSIVE BinarySearch(_, _, _, _)
BinarySearch(s, pivot, l, r) ==
    IF l >= r THEN l
    ELSE LET p == l + ((r - l) \div 2)
         IN  IF KeyLT(pivot, s[p]) THEN BinarySearch(s, pivot, l, p)
             ELSE BinarySearch(s, pivot, p + 1, r)

InsertAt(s, start, l) ==
    [i \in 1..Len(s) |->
        IF i < l \/ i > start THEN s[i]
        ELSE IF i = l THEN s[start]
        ELSE s[i - 1]]

RECURSIVE BinarySort(_, _)
BinarySort(s, start) ==
    IF start > Len(s) THEN s
    ELSE BinarySort(InsertAt(s, start, BinarySearch(s, s[start], 1, start)),
                    start + 1)

\* list.sort(key=..., reverse=True) for a list shorter than 64 (one run,
\* binary insertion): reverse, sort ascending, reverse
PySortReverse(s) ==
    IF Len(s) < 2 THEN s
    ELSE LET r == ReverseSeq(s)
             run == CountRun(r)
             head == IF run.desc THEN ReversePrefix(r, run.n) ELSE r
         IN  ReverseSeq(BinarySort(head, run.n + 1))

\* the candidates of one base concept: its value columns in column order,
\* without those whose first-row value is NaN
IsCandidate(col) == ~col.isna

\* first candidate whose period equals the requested one
RECURSIVE FirstMatching(_, _, _)
FirstMatching(cands, req, i) ==
    IF i > Len(cands) THEN 0
    ELSE IF PeriodEq(cands[i].period, req) THEN i
    ELSE FirstMatching(cands, req, i + 1)

IsUnsegmented(c) == ~c.has_segment

SelectCandidate(cands, req) ==
    LET m == FirstMatching(cands, req, 1)
        non_segmented == SelectSeq(cands, IsUnsegmented)
    IN  IF m # 0 THEN cands[m]
        ELSE IF non_segmented # <<>> THEN PySortReverse(non_segmented)[1]
        ELSE PySortReverse(cands)[1]

Concepts == {"Revenues", "Assets"}

\* consolidate_data: concept -> index of the chosen value column, for the
\* concepts that have a candidate
consolidate_data(df, req) ==
    LET withCands == { b \in DOMAIN df : SelectSeq(df[b], IsCandidate) # <<>> }
    IN  [b \in withCands |->
            SelectCandidate(SelectSeq(df[b], IsCandidate), req).index]

\* most value columns of one concept
MaxCand == 3

\* the requested period_end_date and the dates around it
RequestedPeriod == 2
PeriodSamples ==
    { DatePeriod(RequestedPeriod - 1), DatePeriod(RequestedPeriod),
      DatePeriod(RequestedPeriod + 1), NonePeriod, NaTPeriod }

\* value columns a concept may have at position i
ColumnsAt(i) ==
    { [index |-> i, isna |-> FALSE, period |-> p, has_segment |-> g] :
        p \in PeriodSamples, g \in BOOLEAN }
    \cup { [index |-> i, isna |-> TRUE, period |-> NonePeriod, has_segment |-> FALSE] }

RECURSIVE ColumnSeqs(_)
ColumnSeqs(n) ==
    IF n = 0 THEN {<<>>}
    ELSE LET shorter == ColumnSeqs(n - 1)
         IN  shorter \cup
             { Append(s, c) : s \in { t \in shorter : Len(t) = n - 1 },
                              c \in ColumnsAt(n) }

VARIABLES
    cDf,        \* concept -> its value columns, in column order
    cOut        \* [done, sel]: the consolidated row once computed

conVars == <<cDf, cOut>>

ConsolidatorIdle ==
    /\ cDf = [b \in {} |-> <<>>]
    /\ cOut = [done |-> FALSE, sel |-> [b \in {} |-> 0]]

ConsolidatorInit ==
    /\ cDf \in [Concepts -> ColumnSeqs(MaxCand)]
    /\ \A b \in Concepts : b # "Revenues" => Len(cDf[b]) <= 1
    /\ cOut = [done |-> FALSE, sel |-> [b \in {} |-> 0]]

Consolidate ==
    /\ ~cOut.done
    /\ cOut' = [done |-> TRUE,
                sel |-> consolidate_data(cDf, DatePeriod(RequestedPeriod))]
    /\ UNCHANGED cDf

CandidateSet(b) == { cDf[b][i] : i \in { j \in DOMAIN cDf[b] : ~cDf[b][j].isna } }

\* c is at least as recent as every dated member of S
MostRecentIn(c, S) ==
    \A q \in S : q.period.k = "date" =>
        (c.period.k = "date" /\ c.period.d >= q.period.d)

\* C7: per concept with a non-null candidate exactly one candidate is chosen:
\* one dated as requested if there is one, else the most recent unsegmented
\* one, else (all segmented) the most recent; a concept without candidates is
\* absent from the output.
C7_TieBreakOrder ==
    cOut.done =>
        \A b \in Concepts :
            LET S == CandidateSet(b)
                matching == { c \in S : c.period = DatePeriod(RequestedPeriod) }
                unseg == { c \in S : ~c.has_segment }
            IN  IF S = {} THEN b \notin DOMAIN cOut.sel
                ELSE /\ b \in DOMAIN cOut.sel
                     /\ \E c \in S :
                          /\ c.index = cOut.sel[b]
                          /\ IF matching # {} THEN c \in matching
                             ELSE IF unseg # {} THEN c \in unseg /\ MostRecentIn(c, unseg)
                             ELSE MostRecentIn(c, S)


(***************************************************************************)
(* ----------------------------- Numeric sanitizer ---------------------- *)
(* clean_data_for_json(data_dict, ticker, context)                        *)
(***************************************************************************)

\* kinds of value a fetched row may hold under a key
ValueKinds ==
    { "none", "float", "float_nan", "float_inf", "int", "bool",
      "decimal", "decimal_nan", "decimal_inf", "str", "date", "timestamp",
      "nat", "float16", "float16_inf", "object", "list" }

\* pd.isna(v) or v is None
IsNA(v) == v \in {"none", "float_nan", "decimal_nan", "nat"}

\* what is stored under a key that is kept
Skip == "skip"
RaiseValueError == "raise"

\* service: the isinstance chain of lines 254-275
CleanValueService(v) ==
    IF v = "list" THEN RaiseValueError   \* truth value of pd.isna(array)
    ELSE IF IsNA(v) THEN Skip
    ELSE IF v \in {"date", "timestamp"} THEN "str"          \* isoformat()
    ELSE IF v \in {"decimal", "decimal_inf"} THEN
         (IF v = "decimal" THEN "float" ELSE "float_inf")   \* float(v)
    ELSE IF v \in {"int", "bool"} THEN "int"                \* int(v)
    ELSE IF v = "float" THEN "float"
    ELSE IF v = "float_inf" THEN Skip
    ELSE IF v = "str" THEN "str"
    ELSE IF v = "float16" THEN "float"                      \* __float__
    ELSE IF v = "float16_inf" THEN Skip
    ELSE "str"                                              \* str(v)

\* job: the isinstance chain of lines 394-426
CleanValueJob(v) ==
    IF v = "list" THEN RaiseValueError
    ELSE IF IsNA(v) THEN Skip
    ELSE IF v \in {"date", "timestamp"} THEN "str"
    ELSE IF v \in {"decimal", "decimal_inf"} THEN
         (IF v = "decimal" THEN "float" ELSE "float_inf")
    ELSE IF v \in {"int", "bool"} THEN "int"
    ELSE IF v \in {"float", "float16"} THEN "float"
    ELSE IF v \in {"float_inf", "float16_inf"} THEN Skip
    ELSE "str"                                              \* str(v)

\* the keys of the modelled rows
RowKeys == {"ticker", "cik", "total_debt"}

SvcExcludeKeys == {"ticker", "cik"}
JobExcludeKeys == {"ticker"}

ExcludeKeys(impl) == IF impl = "service" THEN SvcExcludeKeys ELSE JobExcludeKeys

CleanValue(impl, v) ==
    IF impl = "service" THEN CleanValueService(v) ELSE CleanValueJob(v)

\* the cleaned mapping, or the exception that escapes
clean_data_for_json(impl, data) ==
    LET seen == { k \in DOMAIN data : k \notin ExcludeKeys(impl) }
        kept == { k \in seen : CleanValue(impl, data[k]) \notin {Skip, RaiseValueError} }
    IN  IF \E k \in seen : CleanValue(impl, data[k]) = RaiseValueError
        THEN [raised |-> TRUE, cleaned |-> [k \in {} |-> "int"]]
        ELSE [raised |-> FALSE, cleaned |-> [k \in kept |-> CleanValue(impl, data[k])]]

VARIABLES
    sImpl,      \* implementation under test
    sData,      \* the input mapping: key -> kind of value
    sOut        \* [done, raised, cleaned]

sanVars == <<sImpl, sData, sOut>>

SanitizerPending == [done |-> FALSE, raised |-> FALSE, cleaned |-> [k \in {} |-> "int"]]

SanitizerIdle ==
    /\ sImpl = "service"
    /\ sData = [k \in {} |-> "none"]
    /\ sOut = SanitizerPending

SanitizerInit ==
    /\ sImpl \in Impls
    /\ sData \in [RowKeys -> ValueKinds]
    /\ sOut = SanitizerPending

Sanitize ==
    /\ ~sOut.done
    /\ LET r == clean_data_for_json(sImpl, sData)
       IN  sOut' = [done |-> TRUE, raised |-> r.raised, cleaned |-> r.cleaned]
    /\ UNCHANGED <<sImpl, sData>>

FiniteNumeric == {"int", "float"}

\* C8: the returned mapping holds finite numbers only, holds no excluded
\* key, and no exception escapes.
C8_SanitizerFiniteness ==
    sOut.done =>
        /\ ~sOut.raised
        /\ \A k \in DOMAIN sOut.cleaned :
             /\ sOut.cleaned[k] \in FiniteNumeric
             /\ k \notin ExcludeKeys(sImpl)


(***************************************************************************)
(* ----------------------------- Ratio engine --------------------------- *)
(* adjust_ratio_scale and calculate_ratios_with_gemini                    *)
(*                                                                         *)
(* Numbers are fixed-point integers counting ten-thousandths: 0.55 is     *)
(* 5500.  A value is [k |-> kind, v |-> number].                          *)
(***************************************************************************)

RATIOS == << "debt_to_equity", "fcf_yield", "current_ratio", "roe",
             "gross_margin", "operating_margin", "quick_ratio", "eps",
             "eps_change", "revenue_growth", "price_trend_ratio" >>

RatioNames == Range(RATIOS)

\* ratios_to_process: every ratio but the pre-computed price trend
GeminiRatioNames == RatioNames \ {"price_trend_ratio"}

Num(v) == [k |-> "num", v |-> v]
NullV == [k |-> "null", v |-> 0]

\* JSON values the external computation may put under a key (json.loads
\* accepts NaN and Infinity); "str_num" is text such as "1,234.5" that parses
\* once commas are removed, "str_plain" text float() parses as it stands,
\* "str_bad" text such as "N/A"; "list" stands for any list or object
RawKinds == { "num", "null", "nan", "inf", "bool", "str_plain", "str_num",
              "str_bad", "list" }

Raw(k, v) == [k |-> k, v |-> v]

\* expected_ranges, in ten-thousandths
HasRange(name) == name \in RatioNames

MinVal(name) ==
    CASE name = "debt_to_equity"    -> -50000
      [] name = "fcf_yield"         -> -10000
      [] name = "current_ratio"     -> 500
      [] name = "roe"               -> -20000
      [] name = "gross_margin"      -> -10000
      [] name = "operating_margin"  -> -20000
      [] name = "quick_ratio"       -> 500
      [] name = "eps"               -> -1000000
      [] name = "eps_change"        -> -200000
      [] name = "revenue_growth"    -> -10000
      [] name = "price_trend_ratio" -> 2000

MaxVal(name) ==
    CASE name = "debt_to_equity"    -> 200000
      [] name = "fcf_yield"         -> 5000
      [] name = "current_ratio"     -> 150000
      [] name = "roe"               -> 20000
      [] name = "gross_margin"      -> 10000
      [] name = "operating_margin"  -> 10000
      [] name = "quick_ratio"       -> 120000
      [] name = "eps"               -> 5000000
      [] name = "eps_change"        -> 200000
      [] name = "revenue_growth"    -> 100000
      [] name = "price_trend_ratio" -> 50000

PercentLikeRatios == {"gross_margin", "operating_margin", "roe", "fcf_yield"}

\* ratio_float / 100.0 (exact for the modelled values, multiples of 0.01)
DivideBy100(v) == IF v >= 0 THEN v \div 100 ELSE -((-v) \div 100)

\* the value kept whatever its range
ScaleToRange_NoRepair(v, name) == v

\* the divide-by-100 repair applied to every ratio that has a range
ScaleToRange_RepairAll(v, name) ==
    IF ~HasRange(name) THEN v
    ELSE IF MinVal(name) <= v /\ v <= MaxVal(name) THEN v
    ELSE IF Abs(v) > 15000 /\ Abs(v) <= 2000000
            /\ MinVal(name) <= DivideBy100(v) /\ DivideBy100(v) <= MaxVal(name)
         THEN DivideBy100(v)
    ELSE v

\* the division applied without looking where the hundredth lands
ScaleToRange_BlindRepair(v, name) ==
    IF ~HasRange(name) THEN v
    ELSE IF MinVal(name) <= v /\ v <= MaxVal(name) THEN v
    ELSE IF name \in PercentLikeRatios /\ Abs(v) > 15000 /\ Abs(v) <= 2000000
         THEN DivideBy100(v)
    ELSE v

\* the range part of the service's adjust_ratio_scale, lines 317-346
ScaleToRange(v, name) ==
    IF ~HasRange(name) THEN v
    ELSE IF MinVal(name) <= v /\ v <= MaxVal(name) THEN v
    ELSE IF name \in PercentLikeRatios
         THEN IF Abs(v) > 15000 /\ Abs(v) <= 2000000
              THEN IF MinVal(name) <= DivideBy100(v) /\ DivideBy100(v) <= MaxVal(name)
                   THEN DivideBy100(v)
                   ELSE v
              ELSE v
    ELSE v

\* the value handed on as it came
AdjustService_PassThrough(raw, name) == raw

\* service adjust_ratio_scale(ratio, ratio_name, ticker): the conversion of
\* lines 283-300, then the range logic
AdjustService(raw, name) ==
    IF raw.k \in {"null", "nan", "inf", "str_bad", "list"} THEN NullV
    ELSE IF raw.k = "bool" THEN Num(ScaleToRange(10000, name))   \* float(True)
    ELSE Num(ScaleToRange(raw.v, name))

\* job adjust_ratio_scale(ratio, name, ticker): float(ratio) or None, no range
\* logic; pd.isna of a list raises ValueError out of the function
AdjustJobRaises(raw) == raw.k = "list"

AdjustJob(raw, name) ==
    IF raw.k \in {"null", "nan", "inf", "str_bad", "str_num"} THEN NullV
    ELSE IF raw.k = "bool" THEN Num(10000)
    ELSE Num(raw.v)

\* --- the response text, as a sequence of tokens ---
\* "{" "}" "[" "]" delimiters; "kv" the members of an object; "scalar" a JSON
\* scalar such as 42 or null; "prose" text that is no JSON; "fence_open" a
\* line ```json and "fence_close" a line ```
Tokens == { "{", "}", "[", "]", "kv", "scalar", "prose", "fence_open", "fence_close" }

Inner(t) == SubSeq(t, 2, Len(t) - 1)

\* json.loads(text): "dict", "list", "scalar", or "invalid" (JSONDecodeError)
RECURSIVE JsonLoads(_)
JsonLoads(t) ==
    IF t = <<"scalar">> THEN "scalar"
    ELSE IF t = <<"{", "}">> \/ t = <<"{", "kv", "}">> THEN "dict"
    ELSE IF Len(t) >= 2 /\ t[1] = "[" /\ t[Len(t)] = "]"
            /\ (Len(t) = 2 \/ JsonLoads(Inner(t)) # "invalid")
         THEN "list"
    ELSE "invalid"

\* does the parsed object carry the computed members
HasMembers(t) == \E i \in DOMAIN t : t[i] = "kv"

IsFence(tok) == tok \in {"fence_open", "fence_close"}
NotFence(tok) == ~IsFence(tok)

\* re.sub(r"^```json\s*|\s*```$", "", text, flags=re.MULTILINE).strip()
StripFences(t) == SelectSeq(t, NotFence)

\* text.find('{') and text.rfind('}') + 1, as token positions (0: not found)
RECURSIVE FindFirst(_, _, _)
FindFirst(t, tok, i) ==
    IF i > Len(t) THEN 0
    ELSE IF t[i] = tok THEN i
    ELSE FindFirst(t, tok, i + 1)

RECURSIVE FindLast(_, _, _)
FindLast(t, tok, i) ==
    IF i < 1 THEN 0
    ELSE IF t[i] = tok THEN i
    ELSE FindLast(t, tok, i - 1)

\* the service's parsing, lines 422-443: the parsed object, or "error" for
\* every ValueError raised on the way (all caught at line 466)
SvcParse(t) ==
    IF t = <<>> THEN "error"
    ELSE IF JsonLoads(t) # "invalid"
         THEN (IF JsonLoads(t) = "dict" THEN "dict" ELSE "error")
    ELSE IF StripFences(t) = <<>> THEN "error"
    ELSE IF JsonLoads(StripFences(t)) = "dict" THEN "dict"
    ELSE "error"

\* the job's parsing, lines 512-528: the span from the first "{" to the last
\* "}" is handed to json.loads
JobSpan(t) ==
    LET a == FindFirst(t, "{", 1)
        b == FindLast(t, "}", Len(t))
    IN  IF a = 0 \/ b = 0 THEN <<>> ELSE SubSeq(t, a, b)

JobParse(t) ==
    IF t = <<>> THEN "error"
    ELSE IF FindFirst(t, "{", 1) = 0 \/ FindLast(t, "}", Len(t)) = 0 THEN "error"
    ELSE IF JsonLoads(JobSpan(t)) = "dict" THEN "dict"
    ELSE "error"

\* the members json.loads yields for the parsed text: the computed metrics
\* when the object carries them, the empty object otherwise
ParsedMetrics(span, metrics) ==
    IF HasMembers(span) THEN metrics ELSE [n \in {} |-> Raw("null", 0)]

\* metrics.get(name)
Get(metrics, name) ==
    IF name \in DOMAIN metrics THEN metrics[name] ELSE Raw("null", 0)

AllNull(ptr) ==
    [n \in RatioNames |-> IF n = "price_trend_ratio" THEN ptr ELSE NullV]

\* service calculate_ratios_with_gemini once generate_content has returned
\* `text` (whose object, if any, holds `metrics`); ptr is
\* current_data['price_trend_ratio']
SvcRatiosFromText(text, metrics, ptr) ==
    IF SvcParse(text) = "error" THEN AllNull(ptr)
    ELSE LET src == IF JsonLoads(text) = "dict" THEN text ELSE StripFences(text)
             m == ParsedMetrics(src, metrics)
         IN  [n \in RatioNames |->
                IF n = "price_trend_ratio" THEN ptr
                ELSE AdjustService(Get(m, n), n)]

\* the job's adjust_ratio_scale(ptr_value, 'price_trend_ratio', ticker)
JobPtr(ptr) == IF ptr.k = "null" THEN NullV ELSE AdjustJob(ptr, "price_trend_ratio")

\* job calculate_ratios_with_gemini once generate_content has returned
JobRatiosFromText(text, metrics, ptr) ==
    LET m == ParsedMetrics(JobSpan(text), metrics)
        ptrOut == JobPtr(ptr)
    IN  IF JobParse(text) = "error"
           \/ \E n \in GeminiRatioNames : AdjustJobRaises(Get(m, n))
        THEN AllNull(ptrOut)
        ELSE [n \in RatioNames |->
                IF n = "price_trend_ratio" THEN ptrOut
                ELSE AdjustJob(Get(m, n), n)]

\* a result that has not been computed yet, and an exception leaving a call
Pending == [k |-> "pending", v |-> 0]
Raise == [k |-> "raise", v |-> 0]

\* adjust_ratio_scale(ratio, ratio_name, ticker) of either implementation
adjust_ratio_scale(im, raw, name) ==
    IF im = "service" THEN AdjustService(raw, name)
    ELSE IF AdjustJobRaises(raw) THEN Raise
    ELSE AdjustJob(raw, name)

\* --- adjust_ratio_scale applied to one value ---
VARIABLES
    aImpl,    \* implementation whose adjust_ratio_scale is called
    aName,    \* ratio_name
    aRaw,     \* ratio
    aOut,     \* the value returned, Pending before the call
    aAgain    \* the value returned when aOut is handed in again

adjVars == <<aImpl, aName, aRaw, aOut, aAgain>>

\* ratio names handed in: the eleven of RATIOS and one without a range
NameSamples == RatioNames \cup {"market_cap"}

\* values handed in, in ten-thousandths: around the bounds of the ranges,
\* around 1.5 and 200, and the percentages 50, 55, 100, 150
RatioValueSamples ==
    { -9000000, -2010000, -2000000, -1500000, -1000000, -550000, -20000,
      -15100, -15000, -10000, -5000, 0, 5000, 5500, 10000, 15000, 15100,
      20000, 500000, 550000, 1000000, 1010000, 1500000, 2000000, 2010000,
      9000000 }

RawSamples ==
    { Raw("num", v) : v \in RatioValueSamples }
    \cup { Raw("null", 0), Raw("nan", 0), Raw("inf", 0), Raw("bool", 0),
           Raw("str_plain", 550000), Raw("str_num", 550000),
           Raw("str_bad", 0), Raw("list", 0) }

AdjusterIdle ==
    /\ aImpl = "service"
    /\ aName = "roe"
    /\ aRaw = Raw("null", 0)
    /\ aOut = NullV
    /\ aAgain = NullV

AdjusterInit ==
    /\ aImpl \in Impls
    /\ aName \in NameSamples
    /\ aRaw \in RawSamples
    /\ aOut = Pending
    /\ aAgain = Pending

Adjust ==
    /\ aOut = Pending
    /\ aOut' = adjust_ratio_scale(aImpl, aRaw, aName)
    /\ UNCHANGED <<aImpl, aName, aRaw, aAgain>>

\* adjust_ratio_scale called on the value an earlier call returned
AdjustAgain ==
    /\ aOut \notin {Pending, Raise}
    /\ aAgain = Pending
    /\ aAgain' = adjust_ratio_scale(aImpl, aOut, aName)
    /\ UNCHANGED <<aImpl, aName, aRaw, aOut>>

\* min_val <= v <= max_val of the ratio's expected range
InExpectedRange(v, name) == MinVal(name) <= v /\ v <= MaxVal(name)

\* C15: for gross_margin, operating_margin, roe and fcf_yield the service's
\* adjust_ratio_scale returns a finite v unchanged when v lies in the
\* ratio's range; otherwise v/100 when 1.5 < |v| <= 200 and v/100 lies in
\* the range; otherwise the out-of-range v itself, never null nor any other
\* number (gross_margin 55 gives 0.55, 50 gives 0.5, 900 gives 900).
C15_ScaleRepair ==
    (/\ aOut # Pending
     /\ aImpl = "service"
     /\ aName \in {"gross_margin", "operating_margin", "roe", "fcf_yield"}
     /\ aRaw.k = "num") =>
        LET v == aRaw.v
            hundredth == DivideBy100(v)
        IN  /\ aOut = Num(IF InExpectedRange(v, aName) THEN v
                          ELSE IF /\ Abs(v) > 15000
                                  /\ Abs(v) <= 2000000
                                  /\ InExpectedRange(hundredth, aName)
                               THEN hundredth
                               ELSE v)
            /\ (aName = "gross_margin" /\ v = 550000) => aOut = Num(5500)
            /\ (aName = "gross_margin" /\ v = 500000) => aOut = Num(5000)
            /\ (aName = "gross_margin" /\ v = 9000000) => aOut = Num(9000000)

\* the service has turned a gross margin of 55 into 0.55
C15_Witness ==
    /\ aImpl = "service"
    /\ aName = "gross_margin"
    /\ aRaw = Raw("num", 550000)
    /\ aOut = Num(5500)


(***************************************************************************)
(* ----------------------------- Orchestrator --------------------------- *)
(* main / run_ratio_calculation_job, process_filing and the calls it      *)
(* makes: get_unprocessed_filings, get_price_on_or_before,                *)
(* fetch_bigquery_data, calculate_ratios_with_gemini,                     *)
(* insert_row_to_bigquery                                                 *)
(***************************************************************************)

\* filings in the metadata table of a batch run
NumFilings == 2

\* consecutive runs of the program over the same tables
MaxRuns == 2

\* ThreadPoolExecutor(max_workers=MAX_WORKERS), default of the environment
MAX_WORKERS == 8

\* stop_after_attempt(...) of the retry decorators
PRICE_ATTEMPTS == 3
FETCH_ATTEMPTS == 3
GEMINI_ATTEMPTS == 4
INSERT_ATTEMPTS == 3
BACKLOG_ATTEMPTS == 3

\* timedelta(days=...) of the price lookups
PRICE_LOOKBACK_DAYS == 7
DAYS_20 == 20
DAYS_50 == 50

\* one more failure than tenacity allows before the exception is re-raised
RetriesLeft_OneMore(failed, limit) == failed < limit

\* @retry(stop=stop_after_attempt(limit), reraise=True): after `failed`
\* failed attempts the attempt that has just failed is retried
RetriesLeft(failed, limit) == failed + 1 < limit

Scenarios == {"batch", "single"}

\* every modelled filing reports TargetDate and was filed sixty days later
FiledDateOf(T) == T + 60

\* a date column holds a day number, NoDate standing for NULL
NoDate == 0

Filing(n, missing) ==
    [ Ticker          |-> IF missing = "Ticker" THEN None ELSE "AAA",
      AccessionNumber |-> IF missing = "AccessionNumber" THEN None ELSE ToString(n),
      ReportEndDate   |-> IF missing = "ReportEndDate" THEN NoDate ELSE TargetDate,
      FiledDate       |-> IF missing = "FiledDate" THEN NoDate
                          ELSE FiledDateOf(TargetDate) ]

\* metadata tables: filing n of the table, the first one possibly lacking a
\* field
Catalogs(scenario) ==
    LET ids == IF scenario = "single" THEN {1} ELSE 1..NumFilings
        lacks == IF scenario = "single"
                 THEN {"nothing", "Ticker", "AccessionNumber", "ReportEndDate", "FiledDate"}
                 ELSE {"nothing", "AccessionNumber"}
    IN  { [n \in ids |-> Filing(n, IF n = 1 THEN m ELSE "nothing")] : m \in lacks }

\* all([ticker, accession_number, report_end_date_obj, filed_date_obj]):
\* None is falsy, a date and NaT are truthy
ValidFiling(fi) ==
    /\ fi.Ticker # None
    /\ fi.AccessionNumber # None
    /\ fi.ReportEndDate # NoDate
    /\ fi.FiledDate # NoDate

\* pd.NaT, what pd.to_datetime(...).dt.date leaves for a NULL date
NaTDate == -1

\* the record get_unprocessed_filings hands to process_filing for a row of
\* the metadata table: the service converts the date columns, a NULL
\* becoming NaT; the rows the job hands on have dates (see Unprocessed)
FilingRecord(im, fi) ==
    IF im = "service"
    THEN [fi EXCEPT !.ReportEndDate = IF @ = NoDate THEN NaTDate ELSE @,
                    !.FiledDate     = IF @ = NoDate THEN NaTDate ELSE @]
    ELSE fi

\* --- price table and get_price_on_or_before ---
PriceRow(d, c) == [ticker |-> "AAA", date |-> d, adj_close |-> c]

PriceStores(scenario) ==
    LET d20 == FiledDateOf(TargetDate) - DAYS_20
        d50 == FiledDateOf(TargetDate) - DAYS_50
        both == { PriceRow(d20, Num(110)), PriceRow(d50 - 3, Num(100)) }
    IN  IF scenario = "batch" THEN { both }
        ELSE { both,
               {},
               { PriceRow(d20, Num(110)) },
               { PriceRow(d20, Num(110)), PriceRow(d50, Num(0)) },
               { PriceRow(d20, Num(600)), PriceRow(d50, Num(100)) },
               { PriceRow(d20, NullV), PriceRow(d20 - 1, Num(110)),
                 PriceRow(d50, Num(100)) },
               { PriceRow(d20 - 8, Num(110)), PriceRow(d50, Num(100)) } }

\* ORDER BY date DESC LIMIT 1 over the rows of the seven-day look-back
LatestPriceRows(store, ticker, d) ==
    LET rows == { r \in store : r.ticker = ticker /\ d - PRICE_LOOKBACK_DAYS <= r.date
                                /\ r.date <= d }
    IN  { r \in rows : \A q \in rows : q.date <= r.date }

PriceRaise == [k |-> "raise", v |-> 0]

\* one attempt of get_price_on_or_before: the price, None (NullV), or the
\* exception handed to the retry decorator.  The service returns None on an
\* exception that is no GoogleAPICallError; the job re-raises every exception.
get_price_on_or_before(impl, store, ticker, d, outcome) ==
    IF outcome = "api_error" THEN PriceRaise
    ELSE IF outcome = "other_error"
         THEN (IF impl = "service" THEN NullV ELSE PriceRaise)
    ELSE LET rows == LatestPriceRows(store, ticker, d)
         IN  IF rows = {} THEN NullV
             ELSE (CHOOSE r \in rows : TRUE).adj_close

\* --- get_price_on_or_before called once, with its retry decorator ---
VARIABLES
    lImpl,      \* implementation whose get_price_on_or_before is called
    lStore,     \* the price table
    lDate,      \* target_date
    lAttempts,  \* failed attempts so far
    lOutcome,   \* what the query of the last attempt did
    lOut        \* the price returned, NullV for None, PriceRaise, or Pending

lookVars == <<lImpl, lStore, lDate, lAttempts, lOutcome, lOut>>

\* days relative to target_date at which the table may hold a row
LookupOffsets == {-8, -7, -3, 0, 1}

LookupDate == FiledDateOf(TargetDate) - DAYS_20

\* a table with, per offset, no row, a row with a price or a row whose
\* price is NULL, and a row of another ticker
LookupStoreOf(a) ==
    { PriceRow(LookupDate + o, IF a[o] = "priced" THEN Num(100 + o) ELSE NullV) :
        o \in { x \in LookupOffsets : a[x] # "absent" } }
    \cup { [ticker |-> "BBB", date |-> LookupDate, adj_close |-> Num(999)] }

LookupStores ==
    { LookupStoreOf(a) : a \in [LookupOffsets -> {"absent", "priced", "null"}] }

LookupIdle ==
    /\ lImpl = "service"
    /\ lStore = {}
    /\ lDate = LookupDate
    /\ lAttempts = 0
    /\ lOutcome = "ok"
    /\ lOut = NullV

LookupInit ==
    /\ lImpl \in Impls
    /\ lStore \in LookupStores
    /\ lDate = LookupDate
    /\ lAttempts = 0
    /\ lOutcome = "ok"
    /\ lOut = Pending

\* one attempt; tenacity calls again while attempts are left
LookupAttempt ==
    /\ lOut = Pending
    /\ \E outcome \in QueryOutcomes :
         LET res == get_price_on_or_before(lImpl, lStore, "AAA", lDate, outcome)
         IN  /\ lOutcome' = outcome
             /\ IF res = PriceRaise /\ RetriesLeft(lAttempts, PRICE_ATTEMPTS)
                THEN lAttempts' = lAttempts + 1 /\ UNCHANGED lOut
                ELSE lOut' = res /\ UNCHANGED lAttempts
    /\ UNCHANGED <<lImpl, lStore, lDate>>

\* rows of the ticker in [d - 7 days, d] that have a price
PricedInWindow(store, ticker, d) ==
    { r \in store : /\ r.ticker = ticker
                    /\ d - 7 <= r.date
                    /\ r.date <= d
                    /\ r.adj_close.k = "num" }

\* C17: get_price_on_or_before returns the price of the latest-dated row of
\* the ticker in [d - 7 days, d] that has a price; it returns None exactly
\* when that window holds no price, and raises only when the backend call
\* failed.
C17_PriceLookup ==
    lOut # Pending =>
        LET priced == PricedInWindow(lStore, "AAA", lDate)
            latest == { r \in priced : \A q \in priced : q.date <= r.date }
        IN  /\ lOut.k = "num" => \E r \in latest : lOut = r.adj_close
            /\ lOut = NullV => priced = {}
            /\ (lOutcome = "ok" /\ priced = {}) => lOut = NullV
            /\ (lOutcome = "ok" /\ priced # {}) => lOut.k = "num"
            /\ lOut = PriceRaise => lOutcome # "ok"

\* price_20 / price_50 in ten-thousandths
Quotient(a, b) == (a * 10000) \div b

\* the price-trend block of process_filing once both prices are known; the
\* service adjusts at once, the job when the row is built
PriceTrend(impl, price_20, price_50) ==
    IF price_20.k = "num" /\ price_50.k = "num" /\ price_50.v # 0
    THEN IF impl = "service"
         THEN AdjustService(Num(Quotient(price_20.v, price_50.v)), "price_trend_ratio")
         ELSE Num(Quotient(price_20.v, price_50.v))
    ELSE NullV

\* --- balance-sheet table ---
FinRow(d) == [ticker |-> "AAA", date |-> d]

FinStores(scenario) ==
    LET full == { FinRow(TargetDate), FinRow(TargetDate - PRIOR_SHIFT_DAYS) }
    IN  IF scenario = "batch" THEN { full, {} }
        ELSE { full, {}, { FinRow(TargetDate) }, { FinRow(TargetDate + 10) },
               { FinRow(TargetDate - PRIOR_SHIFT_DAYS) } }

\* --- responses of the external computation ---
MetricsClean == [n \in GeminiRatioNames |-> Raw("num", 5000)]

MetricsMessy ==
    [n \in (GeminiRatioNames \ {"eps_change"}) \cup {"comment"} |->
        CASE n = "debt_to_equity"   -> Raw("nan", 0)
          [] n = "fcf_yield"        -> Raw("inf", 0)
          [] n = "current_ratio"    -> Raw("str_bad", 0)
          [] n = "roe"              -> Raw("num", -1500)
          [] n = "gross_margin"     -> Raw("num", 550000)
          [] n = "operating_margin" -> Raw("str_num", 12345000)
          [] n = "quick_ratio"      -> Raw("bool", 0)
          [] n = "eps"              -> Raw("null", 0)
          [] n = "revenue_growth"   -> Raw("str_plain", 1000)
          [] n = "comment"          -> Raw("str_bad", 0)]

MetricsWithList ==
    [n \in GeminiRatioNames |->
        IF n = "roe" THEN Raw("list", 0) ELSE Raw("num", 5000)]

MetricsIds == {"clean", "messy", "with_list"}

MetricsOf(id) ==
    CASE id = "clean"     -> MetricsClean
      [] id = "messy"     -> MetricsMessy
      [] id = "with_list" -> MetricsWithList

TextSamples ==
    { <<>>,
      <<"prose">>,
      <<"scalar">>,
      <<"[", "]">>,
      <<"{", "}">>,
      <<"{", "kv", "}">>,
      <<"[", "{", "kv", "}", "]">>,
      <<"prose", "{", "kv", "}">>,
      <<"fence_open", "{", "kv", "}", "fence_close">>,
      <<"fence_open", "[", "]", "fence_close">>,
      <<"}", "prose", "{">> }

GeminiResponse(kind, text, m) == [kind |-> kind, text |-> text, m |-> m]

NoResponse == GeminiResponse("none", <<>>, "clean")

\* what one generate_content call may do: raise a GoogleAPICallError, raise
\* another exception, or return text
GeminiResponses(scenario) ==
    { GeminiResponse("api_error", <<>>, "clean"),
      GeminiResponse("other_error", <<>>, "clean") }
    \cup
    IF scenario = "batch"
    THEN { GeminiResponse("text", <<"{", "kv", "}">>, "clean"),
           GeminiResponse("text", <<"prose">>, "clean") }
    ELSE { GeminiResponse("text", t, m) :
             t \in TextSamples,
             m \in MetricsIds } \ 
         { GeminiResponse("text", t, m) :
             t \in { u \in TextSamples : ~HasMembers(u) },
             m \in MetricsIds \ {"clean"} }

\* ratios.update(gemini_calculated_ratios)
Update(d, e) ==
    [k \in DOMAIN d \cup DOMAIN e |-> IF k \in DOMAIN e THEN e[k] ELSE d[k]]

\* a ValueError of the parsing re-raised like an API error
GeminiRaises_OnParseError(impl, r) ==
    \/ impl = "service" /\ r.kind = "api_error"
    \/ r.kind = "text" /\ JsonLoads(r.text) # "dict"

\* one attempt of calculate_ratios_with_gemini given what generate_content
\* did: does the exception reach the retry decorator (only the service
\* re-raises, and only a GoogleAPICallError) ...
GeminiRaises(impl, r) == impl = "service" /\ r.kind = "api_error"

\* ... and the ratios returned when it does not
calculate_ratios_with_gemini(impl, r, ptr) ==
    IF impl = "service"
    THEN IF r.kind = "text" THEN SvcRatiosFromText(r.text, MetricsOf(r.m), ptr)
         ELSE AllNull(ptr)
    ELSE IF r.kind = "text" THEN JobRatiosFromText(r.text, MetricsOf(r.m), ptr)
         ELSE AllNull(JobPtr(ptr))

\* the job's insert_row_to_bigquery returns before any call when every ratio
\* of the row is null
JobSkipsInsert(ratios) == \A n \in RatioNames : ratios[n].k = "null"


(***************************************************************************)
(* ------------------------------ Subscriber ---------------------------- *)
(* index, the Pub/Sub push endpoint, and handle_filing_notification with  *)
(* the calls it awaits: access_secret_version,                            *)
(* fetch_financial_statements_by_url, insert_filing_metadata,             *)
(* append_to_bigquery, download_and_upload_pdf                            *)
(***************************************************************************)

\* stop_after_attempt(3) of every awaited helper
SUBSCRIBER_ATTEMPTS == 3

\* request bodies: {} ; a JSON object without 'message'; a message without
\* 'data'; data that is no base64 of a JSON object; a decodable event
EnvelopeKinds == {"empty", "no_message", "no_data", "bad_payload", "event"}

\* the event carries ticker, accession_no, form_type, filing_url and
\* filed_at, or lacks one of them
EventKinds == {"complete", "incomplete"}

\* deliveries of one notification a modelled run sees
MaxDeliveries == 2

\* the statements of a filing, in the order the tables are appended to
Statements == <<"income_statement", "balance_sheet", "cash_flow">>

\* the steps of the handler
StepNames == {"xbrl", "metadata", "pdf"} \cup Range(Statements)

\* what fetch_financial_statements_by_url returned: was there a filing, has
\* it a period_of_report, and which statements process_financial_df turns
\* into a non-empty frame
NoFiling == [found |-> FALSE, period |-> FALSE, frames |-> {}]

FilingResults ==
    {NoFiling} \cup
    { [found |-> TRUE, period |-> p, frames |-> fr] :
        p \in BOOLEAN, fr \in SUBSET Range(Statements) }

VARIABLES
    sEnvelope,   \* the body of the push request
    sEvent,      \* the event it carries
    sKey,        \* is the global sec_api_key already set
    sPc,         \* "received", the step that is running, or "responded"
    sAttempts,   \* failed attempts of the running step
    sHandler,    \* "not_invoked", "running", "returned", "raised"
    sFiling,     \* what the XBRL fetch returned
    sSteps,      \* step -> "pending", "ok", "empty", "skipped", "raised"
    sStatus,     \* HTTP status returned, 0 before the response
    sTables,     \* table -> times the rows of this filing were written to it
    sDeliveries  \* deliveries of the notification so far

subVars == <<sEnvelope, sEvent, sKey, sPc, sAttempts, sHandler, sFiling,
             sSteps, sStatus, sTables, sDeliveries>>

\* the metadata table and the three statement tables
TableNames == {"metadata"} \cup Range(Statements)

SubscriberIdle ==
    /\ sEnvelope = "empty"
    /\ sEvent = "complete"
    /\ sKey = FALSE
    /\ sPc = "idle"
    /\ sAttempts = 0
    /\ sHandler = "not_invoked"
    /\ sFiling = NoFiling
    /\ sSteps = [st \in StepNames |-> "pending"]
    /\ sStatus = 0
    /\ sTables = [tb \in TableNames |-> 0]
    /\ sDeliveries = 1

SubscriberInit ==
    /\ sEnvelope \in EnvelopeKinds
    /\ sEvent \in EventKinds
    /\ sKey \in BOOLEAN
    /\ sPc = "received"
    /\ sAttempts = 0
    /\ sHandler = "not_invoked"
    /\ sFiling = NoFiling
    /\ sSteps = [st \in StepNames |-> "pending"]
    /\ sStatus = 0
    /\ sTables = [tb \in TableNames |-> 0]
    /\ sDeliveries = 1

\* the handler acknowledged whatever it did
StatusAfterHandler_AlwaysAck(handler) == 204

\* index once asyncio.run(handle_filing_notification(...)) is over: 204
\* when it returned, 500 from the except clause when it raised
StatusAfterHandler(handler) == IF handler = "returned" THEN 204 ELSE 500

\* the handler ends, and index answers
Finish(handler) ==
    /\ sHandler' = handler
    /\ sStatus' = StatusAfterHandler(handler)
    /\ sPc' = "responded"
    /\ sAttempts' = 0

\* an awaited helper raised: tenacity calls it again, or the exception
\* leaves the handler
RetryOrRaise(step) ==
    IF RetriesLeft(sAttempts, SUBSCRIBER_ATTEMPTS)
    THEN /\ sAttempts' = sAttempts + 1
         /\ UNCHANGED <<sPc, sHandler, sSteps, sStatus>>
    ELSE /\ sSteps' = [sSteps EXCEPT ![step] = "raised"]
         /\ Finish("raised")

\* index up to the call of the handler, and the handler's check of the
\* event.  Decoding a message without usable data raises before event_data
\* is bound, the except clause then raises itself and Flask answers 500.
Index ==
    /\ sPc = "received"
    /\ IF sEnvelope \in {"empty", "no_message"}
       THEN /\ sStatus' = 400
            /\ sPc' = "responded"
            /\ UNCHANGED sHandler
       ELSE IF sEnvelope \in {"no_data", "bad_payload"}
       THEN /\ sStatus' = 500
            /\ sPc' = "responded"
            /\ UNCHANGED sHandler
       ELSE IF sEvent = "incomplete"
       THEN /\ sHandler' = "raised"
            /\ sStatus' = StatusAfterHandler("raised")
            /\ sPc' = "responded"
       ELSE /\ sHandler' = "running"
            /\ sPc' = IF sKey THEN "xbrl" ELSE "secret"
            /\ UNCHANGED sStatus
    /\ UNCHANGED <<sEnvelope, sEvent, sKey, sAttempts, sFiling, sSteps, sTables,
                   sDeliveries>>

\* one attempt of access_secret_version
FetchSecret ==
    /\ sPc = "secret"
    /\ \E ok \in BOOLEAN :
         IF ok
         THEN /\ sKey' = TRUE
              /\ sPc' = "xbrl"
              /\ sAttempts' = 0
              /\ UNCHANGED <<sHandler, sSteps, sStatus>>
         ELSE /\ UNCHANGED sKey
              /\ IF RetriesLeft(sAttempts, SUBSCRIBER_ATTEMPTS)
                 THEN /\ sAttempts' = sAttempts + 1
                      /\ UNCHANGED <<sPc, sHandler, sSteps, sStatus>>
                 ELSE /\ Finish("raised")
                      /\ UNCHANGED sSteps
    /\ UNCHANGED <<sEnvelope, sEvent, sFiling, sTables, sDeliveries>>

\* the statement tables still to be appended to, from position i on: the
\* first whose frame is not empty (append_to_bigquery returns at once for an
\* empty frame), or the PDF step
RECURSIVE NextStep(_, _)
NextStep(frames, i) ==
    IF i > Len(Statements) THEN "pdf"
    ELSE IF Statements[i] \in frames THEN Statements[i]
    ELSE NextStep(frames, i + 1)

\* the steps passed over on the way from position i to NextStep
RECURSIVE MarkSkipped(_, _, _)
MarkSkipped(steps, frames, i) ==
    IF i > Len(Statements) \/ Statements[i] \in frames THEN steps
    ELSE MarkSkipped([steps EXCEPT ![Statements[i]] = "skipped"], frames, i + 1)

\* position of a statement in Statements
PositionOf(st) == CHOOSE i \in DOMAIN Statements : Statements[i] = st

\* one attempt of fetch_financial_statements_by_url; then the metadata
\* insert when there is a period_of_report, else the appends
FetchXbrl ==
    /\ sPc = "xbrl"
    /\ \E ok \in BOOLEAN :
         IF ok
         THEN \E res \in FilingResults :
                LET fetched == [sSteps EXCEPT
                                  !["xbrl"] = IF res.found THEN "ok" ELSE "empty"]
                IN  /\ sFiling' = res
                    /\ sAttempts' = 0
                    /\ UNCHANGED <<sHandler, sStatus>>
                    /\ IF res.period
                       THEN /\ sPc' = "metadata"
                            /\ sSteps' = fetched
                       ELSE /\ sPc' = NextStep(res.frames, 1)
                            /\ sSteps' = MarkSkipped(
                                   [fetched EXCEPT !["metadata"] = "skipped"],
                                   res.frames, 1)
         ELSE /\ RetryOrRaise("xbrl")
              /\ UNCHANGED sFiling
    /\ UNCHANGED <<sEnvelope, sEvent, sKey, sTables, sDeliveries>>

\* insert_rows_json / load_table_from_dataframe with WRITE_APPEND: the rows
\* are added to whatever the table holds
Appended(tables, tb) == [tables EXCEPT ![tb] = @ + 1]

\* one attempt of insert_filing_metadata
InsertMetadata ==
    /\ sPc = "metadata"
    /\ \E ok \in BOOLEAN :
         IF ok
         THEN /\ sPc' = NextStep(sFiling.frames, 1)
              /\ sSteps' = MarkSkipped([sSteps EXCEPT !["metadata"] = "ok"],
                                       sFiling.frames, 1)
              /\ sAttempts' = 0
              /\ sTables' = Appended(sTables, "metadata")
              /\ UNCHANGED <<sHandler, sStatus>>
         ELSE /\ RetryOrRaise("metadata")
              /\ UNCHANGED sTables
    /\ UNCHANGED <<sEnvelope, sEvent, sKey, sFiling, sDeliveries>>

\* one attempt of append_to_bigquery for a non-empty frame
AppendFrame ==
    /\ sPc \in Range(Statements)
    /\ \E ok \in BOOLEAN :
         IF ok
         THEN /\ sPc' = NextStep(sFiling.frames, PositionOf(sPc) + 1)
              /\ sSteps' = MarkSkipped([sSteps EXCEPT ![sPc] = "ok"],
                                       sFiling.frames, PositionOf(sPc) + 1)
              /\ sAttempts' = 0
              /\ sTables' = Appended(sTables, sPc)
              /\ UNCHANGED <<sHandler, sStatus>>
         ELSE /\ RetryOrRaise(sPc)
              /\ UNCHANGED sTables
    /\ UNCHANGED <<sEnvelope, sEvent, sKey, sFiling, sDeliveries>>

\* one attempt of download_and_upload_pdf: the blob exists or was uploaded
\* (a path is returned), or the bucket, the download or the upload failed
UploadPdf ==
    /\ sPc = "pdf"
    /\ \E ok \in BOOLEAN :
         IF ok
         THEN /\ sSteps' = [sSteps EXCEPT !["pdf"] = "ok"]
              /\ Finish("returned")
         ELSE RetryOrRaise("pdf")
    /\ UNCHANGED <<sEnvelope, sEvent, sKey, sFiling, sTables, sDeliveries>>

\* Pub/Sub pushes a message again when the endpoint did not answer 2xx: the
\* same body reaches index once more; the globals of the process stay
Redeliver ==
    /\ sPc = "responded"
    /\ sStatus = 500
    /\ sDeliveries < MaxDeliveries
    /\ sDeliveries' = sDeliveries + 1
    /\ sPc' = "received"
    /\ sAttempts' = 0
    /\ sHandler' = "not_invoked"
    /\ sFiling' = NoFiling
    /\ sSteps' = [st \in StepNames |-> "pending"]
    /\ sStatus' = 0
    /\ UNCHANGED <<sEnvelope, sEvent, sKey, sTables>>

Handle ==
    \/ Index
    \/ FetchSecret
    \/ FetchXbrl
    \/ InsertMetadata
    \/ AppendFrame
    \/ UploadPdf
    \/ Redeliver

\* what the endpoint owes besides the ack: 400 for an envelope without
\* 'message', the handler never invoked; 500 whenever the handler raised
RejectsAndFailures ==
    /\ sEnvelope \in {"empty", "no_message"} =>
          /\ sHandler = "not_invoked"
          /\ sStatus \in {0, 400}
          /\ sPc = "responded" => sStatus = 400
    /\ sStatus = 400 => sHandler = "not_invoked"
    /\ sHandler = "raised" => sStatus = 500
    /\ sHandler = "running" => sStatus = 0

\* C18 as stated: 204 is returned only after the handler completed without
\* raising, every step (XBRL fetch, metadata insert, the financial appends,
\* PDF upload) having succeeded; 400 without invoking the handler for an
\* envelope without 'message'; 500 whenever the handler raises.
C18_AckAfterEveryStep ==
    /\ sStatus = 204 =>
          /\ sHandler = "returned"
          /\ \A st \in StepNames : sSteps[st] = "ok"
    /\ RejectsAndFailures

\* C18 amended: 204 is returned only after the handler completed without
\* raising, that is, no step raised on its last attempt, the XBRL fetch
\* returned and the PDF is in the bucket; the metadata insert may have been
\* skipped (no period of report) and so may each append (empty frame).
C18_AckAfterHandlerReturned ==
    /\ sStatus = 204 =>
          /\ sHandler = "returned"
          /\ sSteps["xbrl"] \in {"ok", "empty"}
          /\ sSteps["pdf"] = "ok"
          /\ \A st \in StepNames \ {"xbrl", "pdf"} : sSteps[st] \in {"ok", "skipped"}
          /\ sSteps["metadata"] = "skipped" <=> ~sFiling.period
          /\ \A st \in Range(Statements) :
                sSteps[st] = "skipped" <=> st \notin sFiling.frames
    /\ RejectsAndFailures

\* a message was acknowledged although no metadata row was inserted and
\* one statement was not appended
C18_Witness ==
    /\ sStatus = 204
    /\ sHandler = "returned"
    /\ sSteps["metadata"] = "skipped"
    /\ sSteps["balance_sheet"] = "ok"
    /\ sSteps["cash_flow"] = "skipped"


(***************************************************************************)
(* ----------------------------- Shared counters ------------------------ *)
(* lock = threading.Lock() and counters = {...} of main, as the pool      *)
(* threads running process_filing and the as_completed loop use them      *)
(***************************************************************************)

\* pool threads of the modelled run
NumWorkers == 2

Workers == 1..NumWorkers

\* the thread of main, running the as_completed loop
Collector == 0

Threads == Workers \cup {Collector}

NoHolder == -1

CounterNames == {"processed", "insert_errors", "gemini_errors", "processing_errors"}

\* the `counters[...] += 1` statements one process_filing invocation runs, in
\* order, on each of its paths; <<>> is an invocation that ends in an
\* exception process_filing does not catch, so that future.result() raises
IncrementPaths ==
    { <<"processing_errors">>, <<"processed">>, <<"insert_errors">>,
      <<"gemini_errors", "processed">>, <<"gemini_errors", "insert_errors">>,
      <<>> }

VARIABLES
    tLock,       \* the thread holding the lock, or NoHolder
    tCounters,   \* the counters dict
    tThread,     \* thread -> [pc, path, todo, tmp]
    tCollected   \* futures the as_completed loop has taken

lockVars == <<tLock, tCounters, tThread, tCollected>>

ThreadAt(pc, path) == [pc |-> pc, path |-> path, todo |-> path, tmp |-> 0]

CountersIdle ==
    /\ tLock = NoHolder
    /\ tCounters = [n \in CounterNames |-> 0]
    /\ tThread = [t \in {Collector} |-> ThreadAt("wait", <<>>)]
    /\ tCollected = {}

CountersInit ==
    /\ tLock = NoHolder
    /\ tCounters = [n \in CounterNames |-> 0]
    /\ \E paths \in [Workers -> IncrementPaths] :
         tThread = [t \in Threads |->
                      IF t = Collector THEN ThreadAt("wait", <<>>)
                      ELSE IF paths[t] = <<>> THEN ThreadAt("raised", <<>>)
                      ELSE ThreadAt("acquire", paths[t])]
    /\ tCollected = {}

\* the statements run without taking the lock
CanEnter_NoLock(holder) == TRUE

\* lock.acquire() returns only when no thread holds the lock
CanEnter(holder) == holder = NoHolder

\* `with lock:` entered
Acquire(t) ==
    /\ tThread[t].pc = "acquire"
    /\ CanEnter(tLock)
    /\ tLock' = t
    /\ tThread' = [tThread EXCEPT ![t].pc = "load"]
    /\ UNCHANGED <<tCounters, tCollected>>

\* counters[name] += 1, first half: the value is read
Load(t) ==
    /\ tThread[t].pc = "load"
    /\ tThread' = [tThread EXCEPT ![t].pc = "store",
                                  ![t].tmp = tCounters[Head(tThread[t].todo)]]
    /\ UNCHANGED <<tLock, tCounters, tCollected>>

\* counters[name] += 1, second half: the sum is written back
Store(t) ==
    /\ tThread[t].pc = "store"
    /\ tCounters' = [tCounters EXCEPT ![Head(tThread[t].todo)] = tThread[t].tmp + 1]
    /\ tThread' = [tThread EXCEPT ![t].pc = "release"]
    /\ UNCHANGED <<tLock, tCollected>>

\* `with lock:` left; the thread goes on to its next increment, ends, or
\* (main) goes back to the as_completed loop
Release(t) ==
    /\ tThread[t].pc = "release"
    /\ tLock' = NoHolder
    /\ LET rest == Tail(tThread[t].todo)
       IN  tThread' = [tThread EXCEPT
               ![t].todo = rest,
               ![t].pc = IF rest # <<>> THEN "acquire"
                         ELSE IF t = Collector THEN "wait" ELSE "done"]
    /\ UNCHANGED <<tCounters, tCollected>>

\* one turn of the as_completed loop: future.result(), and the except branch
\* that counts a processing error when it raises
TakeResult(f) ==
    /\ tThread[Collector].pc = "wait"
    /\ f \in Workers \ tCollected
    /\ tThread[f].pc \in {"done", "raised"}
    /\ tCollected' = tCollected \cup {f}
    /\ tThread' = IF tThread[f].pc = "raised"
                  THEN [tThread EXCEPT ![Collector].pc = "acquire",
                                       ![Collector].todo = <<"processing_errors">>]
                  ELSE tThread
    /\ UNCHANGED <<tLock, tCounters>>

\* occurrences of name in a path
RECURSIVE Occurrences(_, _)
Occurrences(path, name) ==
    IF path = <<>> THEN 0
    ELSE (IF Head(path) = name THEN 1 ELSE 0) + Occurrences(Tail(path), name)

RECURSIVE SumOver(_, _)
SumOver(S, name) ==
    IF S = {} THEN 0
    ELSE LET t == CHOOSE x \in S : TRUE
         IN  Occurrences(tThread[t].path, name) + SumOver(S \ {t}, name)

\* increment operations the run executes on counter `name`
IncrementsOn(name) ==
    SumOver(Workers, name)
    + (IF name = "processing_errors"
       THEN Cardinality({ w \in Workers : tThread[w].pc = "raised" })
       ELSE 0)

RunOver ==
    /\ tCollected = Workers
    /\ tThread[Collector].pc = "wait"

\* C23: a thread that is reading or writing a counter, or about to leave the
\* locked block, holds the lock, and once every future has been taken each
\* counter equals the number of increments the threads and the collecting
\* loop executed on it.
C23_NoLostUpdates ==
    /\ \A t \in Threads :
          tThread[t].pc \in {"load", "store", "release"} => tLock = t
    /\ RunOver => \A n \in CounterNames : tCounters[n] = IncrementsOn(n)

\* every pool thread and the collecting loop incremented processing_errors
C23_Witness ==
    /\ RunOver
    /\ \E w \in Workers : tThread[w].pc = "raised"
    /\ \E w \in Workers : tThread[w].path = <<"processing_errors">>
    /\ tCounters["processing_errors"] = NumWorkers

(***************************************************************************)
(* ----------------------------- Stream listener ------------------------ *)
(* listen_to_sec_stream(shutdown_event) and connect_with_retry of          *)
(* services/listener/src/listener.py                                      *)
(***************************************************************************)

\* stop_after_attempt(7) of connect_with_retry
CONNECT_ATTEMPTS == 7

\* calls of connect_with_retry a modelled run may make
MaxCalls == 2

\* What `await connect_with_retry(...)` does in one attempt: "ok" the
\* handshake succeeds, "fail" websockets.connect raises and tenacity takes
\* over; "retry_error", "invalid_handshake" and "unexpected" are the call
\* raising RetryError, InvalidHandshake or another Exception into
\* listen_to_sec_stream, as the unit tests drive it
ConnectOutcomes == {"ok", "fail", "retry_error", "invalid_handshake", "unexpected"}

\* the connection object once the `async with websockets.connect(...)` block
\* of connect_with_retry has been left by `return websocket`
AfterAsyncWith == "closed"

VARIABLES
    wsKey,        \* SEC_API_KEY is set
    wsShutdown,   \* shutdown_event.is_set()
    wsPc,         \* "loop", "connect", "recv", "returned", "raised"
    wsCalls,      \* calls of connect_with_retry made
    wsTries,      \* failed attempts of the current call
    wsConn,       \* websocket_connection: "none", "open" or "closed"
    wsLog,        \* failures logged
    wsFailure,    \* the first failure met: "none", "no_key" or a connect outcome
    wsFirstRecv   \* state of the connection at the first recv(), "none" before

lisVars == <<wsKey, wsShutdown, wsPc, wsCalls, wsTries, wsConn, wsLog,
             wsFailure, wsFirstRecv>>

ListenerIdle ==
    /\ wsKey = TRUE
    /\ wsShutdown = TRUE
    /\ wsPc = "returned"
    /\ wsCalls = 0
    /\ wsTries = 0
    /\ wsConn = "none"
    /\ wsLog = {}
    /\ wsFailure = "none"
    /\ wsFirstRecv = "none"

ListenerInit ==
    /\ wsKey \in BOOLEAN
    /\ wsShutdown = FALSE
    /\ wsPc = "loop"
    /\ wsCalls = 0
    /\ wsTries = 0
    /\ wsConn = "none"
    /\ wsLog = {}
    /\ wsFailure = "none"
    /\ wsFirstRecv = "none"

FirstFailure(kind) == wsFailure' = IF wsFailure = "none" THEN kind ELSE wsFailure

\* signal_handler: SIGINT or SIGTERM sets the event
Signal ==
    /\ wsPc \notin {"returned", "raised"}
    /\ ~wsShutdown
    /\ wsShutdown' = TRUE
    /\ UNCHANGED <<wsKey, wsPc, wsCalls, wsTries, wsConn, wsLog, wsFailure,
                   wsFirstRecv>>

\* the test of the outer while, the API-key check (log, sleep 30, continue)
\* and the return after the loop
LoopTest ==
    /\ wsPc = "loop"
    /\ IF wsShutdown
       THEN /\ wsPc' = "returned"
            /\ UNCHANGED <<wsCalls, wsTries, wsLog, wsFailure>>
       ELSE IF ~wsKey
       THEN /\ wsLog' = wsLog \cup {"no_key"}
            /\ FirstFailure("no_key")
            /\ UNCHANGED <<wsPc, wsCalls, wsTries>>
       ELSE /\ wsCalls < MaxCalls
            /\ wsPc' = "connect"
            /\ wsCalls' = wsCalls + 1
            /\ wsTries' = 0
            /\ UNCHANGED <<wsLog, wsFailure>>
    /\ UNCHANGED <<wsKey, wsShutdown, wsConn, wsFirstRecv>>

\* One attempt of connect_with_retry, and what listen_to_sec_stream does
\* with an exception of the call.  After the seventh failed attempt
\* retry_error_callback logs and its value, None, is returned.  RetryError is
\* handled (log, sleep 60, finally, sleep 5); for any other exception the
\* clause `except (InvalidHandshake, ...)` is evaluated, and InvalidHandshake
\* is not a name of the module: NameError leaves the function.
ConnectAttempt ==
    /\ wsPc = "connect"
    /\ \E outcome \in ConnectOutcomes :
         CASE outcome = "ok" ->
                /\ wsConn' = AfterAsyncWith
                /\ wsPc' = "recv"
                /\ UNCHANGED <<wsTries, wsLog, wsFailure>>
           [] outcome = "fail" ->
                IF wsTries + 1 < CONNECT_ATTEMPTS
                THEN /\ wsTries' = wsTries + 1
                     /\ UNCHANGED <<wsPc, wsConn, wsLog, wsFailure>>
                ELSE /\ wsLog' = wsLog \cup {"gave_up"}
                     /\ FirstFailure("gave_up")
                     /\ wsConn' = "none"
                     /\ wsPc' = "recv"
                     /\ UNCHANGED wsTries
           [] outcome = "retry_error" ->
                /\ wsLog' = wsLog \cup {"retry_error"}
                /\ FirstFailure("retry_error")
                /\ wsConn' = "none"
                /\ wsPc' = "loop"
                /\ UNCHANGED wsTries
           [] OTHER ->
                /\ FirstFailure(outcome)
                /\ wsConn' = "none"
                /\ wsPc' = "raised"
                /\ UNCHANGED <<wsTries, wsLog>>
    /\ UNCHANGED <<wsKey, wsShutdown, wsCalls, wsFirstRecv>>

\* The inner while: skipped when the event is set; otherwise one
\* `await asyncio.wait_for(websocket_connection.recv(), 60)`.  On an open
\* connection a message is handled and a timeout is followed by a ping; a
\* closed connection raises ConnectionClosed and None raises AttributeError,
\* and evaluating `except ConnectionClosedOK` then raises NameError, which
\* the outer clauses do not catch either.  The finally block clears
\* websocket_connection.
Recv ==
    /\ wsPc = "recv"
    /\ IF wsShutdown
       THEN /\ wsPc' = "loop"
            /\ wsConn' = "none"
            /\ UNCHANGED wsFirstRecv
       ELSE /\ wsFirstRecv' = IF wsFirstRecv = "none"
                              THEN (IF wsConn = "none" THEN "no_connection" ELSE wsConn)
                              ELSE wsFirstRecv
            /\ \E outcome \in {"message", "timeout", "closed"} :
                 IF wsConn = "open" /\ outcome # "closed"
                 THEN UNCHANGED <<wsPc, wsConn>>
                 ELSE /\ wsPc' = "raised"
                      /\ wsConn' = "none"
    /\ UNCHANGED <<wsKey, wsShutdown, wsCalls, wsTries, wsLog, wsFailure>>

\* the failures C26 speaks of
ConnectionFailures == {"no_key", "retry_error", "invalid_handshake", "unexpected"}

\* C26: once the API key was found missing, or the call of
\* connect_with_retry raised RetryError, InvalidHandshake or another
\* exception, and while the shutdown event is not set, the listener has
\* logged the failure and returned, having called connect_with_retry at
\* most once.
C26_ExitOnConnectionFailure ==
    (wsFailure \in ConnectionFailures /\ ~wsShutdown) =>
        /\ wsPc = "returned"
        /\ wsFailure \in wsLog
        /\ wsCalls <= 1

\* C27: the connection is open at the first recv() of the listener.
C27_OpenAtFirstRecv ==
    wsFirstRecv \notin {"closed", "no_connection"}

(***************************************************************************)
(* ----------------------------- Rate limiter --------------------------- *)
(* RateLimiter(rate_limit, period) of jobs/fetch_filings/src/main.py,     *)
(* shared by the threads that call acquire(); time in clock ticks          *)
(***************************************************************************)

\* self.rate_limit and self.period (in ticks) of the modelled limiter
RateLimit == 2
Period == 2

\* last tick of the modelled clock, and calls of acquire() made
MaxTime == 3
MaxAcquires == 5

Calls == 1..MaxAcquires

VARIABLES
    rlClock,    \* time.time()
    rlQueue,    \* self.requests: the recorded time stamps, oldest first
    rlHolder,   \* calls holding self.lock: {} or one call
    rlCall      \* call -> [pc, now, wake, at]

rateVars == <<rlClock, rlQueue, rlHolder, rlCall>>

CallAt(pc, now, wake, at) == [pc |-> pc, now |-> now, wake |-> wake, at |-> at]

RateLimiterIdle ==
    /\ rlClock = 0
    /\ rlQueue = <<>>
    /\ rlHolder = {}
    /\ rlCall = [c \in {1} |-> CallAt("returned", 0, 0, 0)]

\* RateLimiter.__init__, and the calls not yet made
RateLimiterInit ==
    /\ rlClock = 0
    /\ rlQueue = <<>>
    /\ rlHolder = {}
    /\ rlCall = [c \in Calls |-> CallAt("idle", 0, 0, 0)]

\* while not empty and now - queue[0] > period: get()
RECURSIVE Purge(_, _)
Purge(q, now) ==
    IF q # <<>> /\ now - Head(q) > Period THEN Purge(Tail(q), now) ELSE q

\* the clock moves on
Tick ==
    /\ rlClock < MaxTime
    /\ rlClock' = rlClock + 1
    /\ UNCHANGED <<rlQueue, rlHolder, rlCall>>

\* acquire() from `with self.lock:` up to its return or, when the queue is
\* full and the oldest stamp is younger than a period, up to time.sleep
EnterAcquire(c) ==
    /\ rlCall[c].pc = "idle"
    /\ rlHolder = {}
    /\ LET now == rlClock
           q == Purge(rlQueue, now)
           sleep_time == Period - (now - Head(q))
       IN  IF Len(q) >= RateLimit
           THEN IF sleep_time > 0
                THEN /\ rlQueue' = q
                     /\ rlHolder' = {c}
                     /\ rlCall' = [rlCall EXCEPT
                            ![c] = CallAt("sleeping", now, now + sleep_time, 0)]
                ELSE /\ rlQueue' = Append(Tail(q), now)
                     /\ rlCall' = [rlCall EXCEPT
                            ![c] = CallAt("returned", now, 0, rlClock)]
                     /\ UNCHANGED rlHolder
           ELSE /\ rlQueue' = Append(q, now)
                /\ rlCall' = [rlCall EXCEPT ![c] = CallAt("returned", now, 0, rlClock)]
                /\ UNCHANGED rlHolder
    /\ UNCHANGED rlClock

\* time.sleep(sleep_time) is over: self.requests.get(), put(now) with the
\* time read before the sleep, and the lock is released
WakeAcquire(c) ==
    /\ rlCall[c].pc = "sleeping"
    /\ rlClock >= rlCall[c].wake
    /\ rlQueue' = Append(Tail(rlQueue), rlCall[c].now)
    /\ rlHolder' = {}
    /\ rlCall' = [rlCall EXCEPT ![c].pc = "returned", ![c].at = rlClock]
    /\ UNCHANGED rlClock

\* calls of acquire() that returned at a time in [start, start + Period)
ReturnedIn(start) ==
    { c \in Calls : /\ rlCall[c].pc = "returned"
                    /\ start <= rlCall[c].at
                    /\ rlCall[c].at < start + Period }

\* C29: in every window of one period at most rate_limit calls of acquire()
\* have returned.
C29_RateBound ==
    \A start \in 0..MaxTime : Cardinality(ReturnedIn(start)) <= RateLimit

\* machines declared after the subscriber
laterVars == <<lockVars, lisVars, rateVars>>

LaterIdle == CountersIdle /\ ListenerIdle /\ RateLimiterIdle

VARIABLES
    scenario,        \* "batch": several filings; "single": one filing, rich data
    impl,            \* which implementation runs
    catalog,         \* the metadata table: filing id -> filing_info
    finStore,        \* balance-sheet rows
    priceStore,      \* price rows
    ratioStore,      \* the ratios table (append only)
    run,             \* number of the current run
    mainPc,          \* position of main: "start", "submit", "collect", "ended"
    backlog,         \* filings_to_process of the current run
    backlogAttempts, \* attempts of get_unprocessed_filings made so far
    counters,        \* the shared counters dict
    summaries,       \* final summaries logged: [run, total, counters]
    worker,          \* filing id -> locals of its process_filing invocation
    collected,       \* futures whose result() the main loop has taken
    credited,        \* <<run, filing>> pairs that incremented 'processed'
    insertFailed     \* has any insert attempt failed

envVars == <<scenario, impl, catalog, finStore, priceStore>>
orchVars == <<envVars, ratioStore, run, mainPc, backlog, backlogAttempts,
              counters, summaries, worker, collected, credited, insertFailed>>

vars == <<resVars, conVars, sanVars, adjVars, lookVars, subVars, laterVars,
         orchVars>>

Filings == DOMAIN catalog

\* the other machines of this module stand still
OthersIdle ==
    UNCHANGED <<resVars, conVars, sanVars, adjVars, lookVars, subVars, laterVars>>

NoData == [kind |-> "none", date |-> 0]

\* the data a fetch result leaves in bq_data / cur
DataOf(res) == [kind |-> res.kind, date |-> res.date]

\* counters = {'processed': 0, 'insert_errors': 0, 'gemini_errors': 0,
\*             'processing_errors': 0}   (the job names the last 'other_errors')
ZeroCounters ==
    [processed |-> 0, insert_errors |-> 0, gemini_errors |-> 0,
     processing_errors |-> 0]

\* locals of a process_filing invocation that has not been submitted
IdleWorker ==
    [ pc            |-> "idle",
      attempts      |-> 0,
      price_20      |-> NullV,
      ptr           |-> NullV,
      bq_data       |-> NoData,
      bq_prior_data |-> NoData,
      ratios        |-> AllNull(NullV),
      response      |-> NoResponse,     \* what generate_content last did
      counted       |-> {},             \* counters this invocation incremented
      exhausted     |-> {} ]            \* calls that raised on their last attempt

Terminal(w) == w.pc \in {"done", "failed"}

Running(w) == w.pc \notin {"idle", "queued", "done", "failed"}

\* locals are private to an invocation: writing those of f leaves the others
SetWorker_SharedRatios(wk, f, rec) ==
    [g \in DOMAIN wk |->
        IF g = f THEN rec ELSE [wk[g] EXCEPT !.ratios = rec.ratios]]

SetWorker(wk, f, rec) == [wk EXCEPT ![f] = rec]

\* with lock: counters[name] += 1
Increment(name) == counters' = [counters EXCEPT ![name] = @ + 1]

RowsOf(store, f) ==
    { row \in store : catalog[f].AccessionNumber # None
                      /\ row.accession_number = catalog[f].AccessionNumber }

\* get_unprocessed_filings: the anti-join on accession number; the job also
\* drops rows without ticker or dates
Unprocessed ==
    { f \in Filings :
        /\ RowsOf(ratioStore, f) = {}
        /\ impl = "job" =>
              /\ catalog[f].Ticker # None
              /\ catalog[f].ReportEndDate # NoDate
              /\ catalog[f].FiledDate # NoDate }

OrchestratorIdle ==
    /\ scenario = "batch"
    /\ impl = "service"
    /\ catalog = [n \in {1} |-> Filing(n, "nothing")]
    /\ finStore = {}
    /\ priceStore = {}
    /\ ratioStore = {}
    /\ run = 1
    /\ mainPc = "idle"
    /\ backlog = {}
    /\ backlogAttempts = 0
    /\ counters = ZeroCounters
    /\ summaries = {}
    /\ worker = [n \in {1} |-> IdleWorker]
    /\ collected = {}
    /\ credited = {}
    /\ insertFailed = FALSE

OrchestratorInit(sc) ==
    /\ scenario = sc
    /\ impl \in Impls
    /\ catalog \in Catalogs(sc)
    /\ finStore \in FinStores(sc)
    /\ priceStore \in PriceStores(sc)
    /\ ratioStore = {}
    /\ run = 1
    /\ mainPc = "start"
    /\ backlog = {}
    /\ backlogAttempts = 0
    /\ counters = ZeroCounters
    /\ summaries = {}
    /\ worker = [n \in DOMAIN catalog |-> IdleWorker]
    /\ collected = {}
    /\ credited = {}
    /\ insertFailed = FALSE

\* --- main ---

\* filings_to_process = get_unprocessed_filings() and the early return.  The
\* service's query returns [] on any exception; the job's is retried and then
\* raises out of the run.
BeginRun ==
    /\ mainPc = "start"
    /\ \E outcome \in {"ok", "error"} :
         IF outcome = "ok"
         THEN /\ backlog' = Unprocessed
              /\ mainPc' = IF Unprocessed = {} THEN "ended" ELSE "submit"
              /\ backlogAttempts' = 0
         ELSE IF impl = "job" /\ RetriesLeft(backlogAttempts, BACKLOG_ATTEMPTS)
              THEN /\ backlogAttempts' = backlogAttempts + 1
                   /\ UNCHANGED <<backlog, mainPc>>
              ELSE /\ backlog' = {}
                   /\ mainPc' = "ended"
                   /\ backlogAttempts' = 0
    /\ counters' = ZeroCounters
    /\ UNCHANGED <<envVars, ratioStore, run, summaries, worker, collected,
                   credited, insertFailed>>
    /\ OthersIdle

\* executor.submit(process_filing, filing_info, ...) for the next filing
Submit ==
    /\ mainPc = "submit"
    /\ LET pending == { f \in backlog : worker[f].pc = "idle" }
           f == CHOOSE g \in pending : \A h \in pending : g <= h
       IN  /\ pending # {}
           /\ worker' = SetWorker(worker, f, [IdleWorker EXCEPT !.pc = "queued"])
           /\ mainPc' = IF pending = {f} THEN "collect" ELSE "submit"
    /\ UNCHANGED <<envVars, ratioStore, run, backlog, backlogAttempts, counters,
                   summaries, collected, credited, insertFailed>>
    /\ OthersIdle

\* one turn of the as_completed loop: future.result() of a finished future
\* (process_filing catches every exception, so result() never raises)
Collect(f) ==
    /\ mainPc = "collect"
    /\ f \in backlog \ collected
    /\ Terminal(worker[f])
    /\ collected' = collected \cup {f}
    /\ UNCHANGED <<envVars, ratioStore, run, mainPc, backlog, backlogAttempts,
                   counters, summaries, worker, credited, insertFailed>>
    /\ OthersIdle

\* the final summary, logged once the loop has taken every future
Summarize ==
    /\ mainPc = "collect"
    /\ collected = backlog
    /\ summaries' = summaries \cup
          { [run |-> run, total |-> Cardinality(backlog), counters |-> counters] }
    /\ mainPc' = "ended"
    /\ UNCHANGED <<envVars, ratioStore, run, backlog, backlogAttempts, counters,
                   worker, collected, credited, insertFailed>>
    /\ OthersIdle

\* the program is started again over the same tables
NextRun ==
    /\ mainPc = "ended"
    /\ run < MaxRuns
    /\ run' = run + 1
    /\ mainPc' = "start"
    /\ backlog' = {}
    /\ backlogAttempts' = 0
    /\ counters' = ZeroCounters
    /\ worker' = [n \in Filings |-> IdleWorker]
    /\ collected' = {}
    /\ UNCHANGED <<envVars, ratioStore, summaries, credited, insertFailed>>
    /\ OthersIdle

\* --- process_filing, one action per external call attempt ---

WorkerFrame ==
    /\ UNCHANGED <<envVars, run, mainPc, backlog, backlogAttempts, summaries,
                   collected>>
    /\ OthersIdle

\* a pool thread picks the invocation up: the validation of filing_info, and
\* report_end_date_obj.strftime, which raises ValueError for NaT into the
\* outer handler
StartFiling(f) ==
    /\ worker[f].pc = "queued"
    /\ Cardinality({ g \in Filings : Running(worker[g]) }) < MAX_WORKERS
    /\ IF /\ ValidFiling(FilingRecord(impl, catalog[f]))
          /\ FilingRecord(impl, catalog[f]).ReportEndDate # NaTDate
       THEN /\ worker' = SetWorker(worker, f, [worker[f] EXCEPT !.pc = "price20"])
            /\ UNCHANGED counters
       ELSE /\ worker' = SetWorker(worker, f,
                 [worker[f] EXCEPT !.pc = "failed",
                                   !.counted = @ \cup {"processing_errors"}])
            /\ Increment("processing_errors")
    /\ UNCHANGED <<ratioStore, credited, insertFailed>>
    /\ WorkerFrame

\* the state process_filing is in once the price block is over
AfterPrices(w, ptr) ==
    [w EXCEPT !.pc = "fetch_cur", !.attempts = 0, !.price_20 = NullV, !.ptr = ptr]

\* one attempt of get_price_on_or_before(ticker, date_20) or (.., date_50);
\* an exception that outlives the retries is caught by the price block, which
\* leaves the price trend None.  For a NaT filed date target_date.strftime
\* raises ValueError before the query, on every attempt.
PriceCall(f) ==
    /\ worker[f].pc \in {"price20", "price50"}
    /\ \E outcome \in QueryOutcomes :
         LET w == worker[f]
             days == IF w.pc = "price20" THEN DAYS_20 ELSE DAYS_50
             fd == FilingRecord(impl, catalog[f]).FiledDate
             res == IF fd = NaTDate THEN PriceRaise
                    ELSE get_price_on_or_before(impl, priceStore, catalog[f].Ticker,
                                                fd - days, outcome)
             failed == IF fd = NaTDate THEN {} ELSE {"price"}
         IN  worker' = SetWorker(worker, f,
                 IF res = PriceRaise
                 THEN IF RetriesLeft(w.attempts, PRICE_ATTEMPTS)
                      THEN [w EXCEPT !.attempts = @ + 1]
                      ELSE [AfterPrices(w, NullV) EXCEPT !.exhausted = @ \cup failed]
                 ELSE IF w.pc = "price20"
                      THEN [w EXCEPT !.pc = "price50", !.attempts = 0, !.price_20 = res]
                      ELSE AfterPrices(w, PriceTrend(impl, w.price_20, res)))
    /\ UNCHANGED <<ratioStore, counters, credited, insertFailed>>
    /\ WorkerFrame

\* the ratios process_filing holds when it skips the external computation
DefaultRatios(ptr) ==
    IF impl = "service" THEN AllNull(ptr) ELSE AllNull(JobPtr(ptr))

\* the state process_filing is in when it goes to the insert without data
SkipToInsert(w) ==
    [w EXCEPT !.pc = "insert", !.attempts = 0, !.bq_data = NoData,
              !.bq_prior_data = NoData, !.ratios = DefaultRatios(w.ptr)]

\* one attempt of fetch_bigquery_data(ticker, report_end_date, prior_period).
\* When the retries are used up the service's outer handler counts a
\* processing error; the job's handler drops both records and goes on.
FetchCall(f) ==
    /\ worker[f].pc \in {"fetch_cur", "fetch_prior"}
    /\ \E oc \in [1..3 -> QueryOutcomes] :
         \E res \in fetch_bigquery_data(impl, finStore, catalog[f].Ticker,
                                        catalog[f].ReportEndDate,
                                        worker[f].pc = "fetch_prior", oc) :
           LET w == worker[f]
           IN  IF res.kind = "raise"
               THEN IF RetriesLeft(w.attempts, FETCH_ATTEMPTS)
                    THEN /\ worker' = SetWorker(worker, f, [w EXCEPT !.attempts = @ + 1])
                         /\ UNCHANGED counters
                    ELSE IF impl = "service"
                    THEN /\ worker' = SetWorker(worker, f,
                              [w EXCEPT !.pc = "failed", !.attempts = 0,
                                        !.counted = @ \cup {"processing_errors"},
                                        !.exhausted = @ \cup {"fetch"}])
                         /\ Increment("processing_errors")
                    ELSE /\ worker' = SetWorker(worker, f,
                              [SkipToInsert(w) EXCEPT !.exhausted = @ \cup {"fetch"}])
                         /\ UNCHANGED counters
               ELSE /\ UNCHANGED counters
                    /\ worker' = SetWorker(worker, f,
                         IF w.pc = "fetch_prior"
                         THEN [w EXCEPT !.pc = "gemini", !.attempts = 0,
                                        !.bq_prior_data = DataOf(res)]
                         ELSE IF res.kind = "record"
                         THEN [w EXCEPT !.pc = "fetch_prior", !.attempts = 0,
                                        !.bq_data = DataOf(res)]
                         ELSE SkipToInsert(w))
    /\ UNCHANGED <<ratioStore, credited, insertFailed>>
    /\ WorkerFrame

\* one attempt of calculate_ratios_with_gemini.  An exception that outlives
\* the retries is caught by process_filing, which counts a gemini error and
\* goes on to the insert with the default ratios.
GeminiCall(f) ==
    /\ worker[f].pc = "gemini"
    /\ \E r \in GeminiResponses(scenario) :
         LET w == worker[f]
             init == AllNull(IF impl = "service" THEN w.ptr ELSE NullV)
         IN  IF GeminiRaises(impl, r)
             THEN IF RetriesLeft(w.attempts, GEMINI_ATTEMPTS)
                  THEN /\ worker' = SetWorker(worker, f,
                            [w EXCEPT !.attempts = @ + 1, !.response = r])
                       /\ UNCHANGED counters
                  ELSE /\ worker' = SetWorker(worker, f,
                            [w EXCEPT !.pc = "insert", !.attempts = 0,
                                      !.response = r,
                                      !.ratios = DefaultRatios(w.ptr),
                                      !.counted = @ \cup {"gemini_errors"}])
                       /\ Increment("gemini_errors")
             ELSE /\ worker' = SetWorker(worker, f,
                       [w EXCEPT !.pc = "insert", !.attempts = 0, !.response = r,
                                 !.ratios = Update(init,
                                     calculate_ratios_with_gemini(impl, r, w.ptr))])
                  /\ UNCHANGED counters
    /\ UNCHANGED <<ratioStore, credited, insertFailed>>
    /\ WorkerFrame

\* row_data as process_filing builds it (run stands for created_at)
RowData(f, w) ==
    [ ticker           |-> catalog[f].Ticker,
      accession_number |-> catalog[f].AccessionNumber,
      report_end_date  |-> catalog[f].ReportEndDate,
      ratios           |-> w.ratios,
      data_source      |-> IF w.bq_data.kind = "record" THEN "bigquery" ELSE "none",
      created_at       |-> run ]

Processed(f, w) ==
    /\ worker' = SetWorker(worker, f,
           [w EXCEPT !.pc = "done", !.attempts = 0,
                     !.counted = @ \cup {"processed"}])
    /\ Increment("processed")
    /\ credited' = credited \cup {<<run, f>>}

\* one attempt of insert_row_to_bigquery, and the counting that follows it
InsertCall(f) ==
    /\ worker[f].pc = "insert"
    /\ LET w == worker[f]
       IN  IF impl = "job" /\ JobSkipsInsert(w.ratios)
           THEN /\ Processed(f, w)
                /\ UNCHANGED <<ratioStore, insertFailed>>
           ELSE \E outcome \in {"ok", "error"} :
                  IF outcome = "ok"
                  THEN /\ ratioStore' = ratioStore \cup {RowData(f, w)}
                       /\ Processed(f, w)
                       /\ UNCHANGED insertFailed
                  ELSE /\ insertFailed' = TRUE
                       /\ UNCHANGED <<ratioStore, credited>>
                       /\ IF RetriesLeft(w.attempts, INSERT_ATTEMPTS)
                          THEN /\ worker' = SetWorker(worker, f,
                                    [w EXCEPT !.attempts = @ + 1])
                               /\ UNCHANGED counters
                          ELSE /\ worker' = SetWorker(worker, f,
                                    [w EXCEPT !.pc = "failed", !.attempts = 0,
                                              !.counted = @ \cup {"insert_errors"}])
                               /\ Increment("insert_errors")
    /\ WorkerFrame

OrchestratorNext ==
    \/ BeginRun
    \/ Submit
    \/ Summarize
    \/ NextRun
    \/ \E f \in Filings : StartFiling(f)
    \/ \E f \in Filings : PriceCall(f)
    \/ \E f \in Filings : FetchCall(f)
    \/ \E f \in Filings : GeminiCall(f)
    \/ \E f \in Filings : InsertCall(f)
    \/ \E f \in Filings : Collect(f)

CounterSum(c) ==
    c.processed + c.gemini_errors + c.insert_errors + c.processing_errors

\* C1: in every final summary the four counters add up to the number of
\* filings in that run's backlog.
C1_CounterConservation ==
    \A sm \in summaries : CounterSum(sm.counters) = sm.total

\* C2: while no insert attempt has failed, every filing that incremented
\* 'processed' has exactly one row in the ratios table, and a filing that
\* did so in an earlier run is not in the backlog of the current run.
C2_IdempotentAcrossRuns ==
    ~insertFailed =>
        \A cr \in credited :
            /\ Cardinality(RowsOf(ratioStore, cr[2])) = 1
            /\ cr[1] < run => cr[2] \notin backlog

\* the locals, the rows and the counts of filing f
Changed(f) ==
    \/ worker'[f] # worker[f]
    \/ RowsOf(ratioStore', f) # RowsOf(ratioStore, f)

\* what the program has recorded for a finished filing follows from the
\* locals of its own invocation
OutcomeFromOwnCalls ==
    \A f \in Filings :
        Terminal(worker[f]) =>
            /\ \A row \in RowsOf(ratioStore, f) :
                  row.created_at = run => row = RowData(f, worker[f])
            /\ "processed" \in worker[f].counted <=> worker[f].pc = "done"
            /\ impl = "service" =>
                  (worker[f].pc = "done" <=>
                     \E row \in RowsOf(ratioStore, f) : row.created_at = run)

\* C3: within a run no step touches the locals or the rows of two filings,
\* so the steps of one filing's worker read and write nothing of another's;
\* and the rows and counts of a finished filing are those its own locals
\* give, under every interleaving and whatever the other filings did.
C3_WorkerIndependence ==
    /\ []OutcomeFromOwnCalls
    /\ [][ run' = run =>
             \A f, g \in Filings : (f # g /\ Changed(f)) => ~Changed(g) ]_vars

\* one filing's insert failed for good while another was inserted
C3_Witness ==
    \E f, g \in Filings :
        /\ worker[f].pc = "failed"
        /\ "insert_errors" \in worker[f].counted
        /\ worker[g].pc = "done"
        /\ RowsOf(ratioStore, g) # {}
        /\ worker[g].ratios # worker[f].ratios

\* the stop_after_attempt limit of the call a worker is making
AttemptLimit(pc) ==
    CASE pc \in {"price20", "price50"}      -> PRICE_ATTEMPTS
      [] pc \in {"fetch_cur", "fetch_prior"} -> FETCH_ATTEMPTS
      [] pc = "gemini"                       -> GEMINI_ATTEMPTS
      [] pc = "insert"                       -> INSERT_ATTEMPTS
      [] OTHER                               -> 1

RetriesBounded ==
    \A f \in Filings : worker[f].attempts < AttemptLimit(worker[f].pc)

SummaryAfterAll ==
    \A sm \in summaries :
        sm.run = run =>
            /\ mainPc = "ended"
            /\ sm.total = Cardinality(backlog)
            /\ \A f \in backlog : Terminal(worker[f])

Unconvertible(raw) == raw.k \in {"null", "nan", "inf", "str_bad", "list"}

FiniteOrNull(val) == val.k \in {"num", "null"}

\* the object the service reads the ratios from, when the response has one
SvcObject(r) ==
    IF JsonLoads(r.text) = "dict" THEN r.text ELSE StripFences(r.text)

\* the row process_filing is about to hand, or has handed, to the insert
AtPersistence(w) == w.pc = "insert" \/ "processed" \in w.counted
                    \/ "insert_errors" \in w.counted

\* C9: the ratios of every row handed to insert_row_to_bigquery, and of
\* every stored row, have exactly the eleven names of RATIOS, each value a
\* finite number or null; in the service a value of the response that is
\* missing or converts to no finite number is null in the row.
C9_RatioSetComplete ==
    /\ \A row \in ratioStore :
          /\ DOMAIN row.ratios = RatioNames
          /\ \A n \in RatioNames : FiniteOrNull(row.ratios[n])
    /\ \A f \in Filings :
          LET w == worker[f]
              r == w.response
          IN  AtPersistence(w) =>
                /\ DOMAIN w.ratios = RatioNames
                /\ \A n \in RatioNames : FiniteOrNull(w.ratios[n])
                /\ (impl = "service" /\ r.kind = "text" /\ SvcParse(r.text) = "dict") =>
                      \A n \in GeminiRatioNames :
                         Unconvertible(Get(ParsedMetrics(SvcObject(r), MetricsOf(r.m)), n))
                            => w.ratios[n] = NullV

\* the service stored a row computed from a response with an extra key, a
\* missing key, NaN, Infinity and text values
C9_Witness ==
    /\ impl = "service"
    /\ \E f \in Filings :
          /\ worker[f].pc = "done"
          /\ worker[f].response = GeminiResponse("text", <<"{", "kv", "}">>, "messy")
          /\ worker[f].ratios["gross_margin"] = Num(5500)
          /\ RowsOf(ratioStore, f) # {}

\* the text is empty, is no JSON, or is JSON but no object
Malformed(t) == t = <<>> \/ JsonLoads(t) # "dict"

\* no object is left once the implementation has cleaned the text: the
\* service strips a ```json fence, the job cuts from the first { to the last }
StillMalformed(t) ==
    IF impl = "service" THEN SvcParse(t) = "error" ELSE JobParse(t) = "error"

\* what C10 promises for filing f
Isolated(f) ==
    LET w == worker[f]
    IN  /\ w.pc \in {"insert", "done", "failed"}
        /\ \A n \in GeminiRatioNames : w.ratios[n] = NullV
        /\ w.ratios["price_trend_ratio"] = w.ptr

\* C10 as stated: a response text that is empty, unparseable or no mapping
\* leaves the ten computed ratios null, keeps the price trend, is not
\* retried and lets the filing go on to the insert.
C10_MalformedIsolated ==
    \A f \in Filings :
        (worker[f].response.kind = "text" /\ Malformed(worker[f].response.text))
            => Isolated(f)

\* C10 amended: the same for a response text in which no JSON object is
\* left after the implementation's own cleaning.
C10_StillMalformedIsolated ==
    \A f \in Filings :
        (worker[f].response.kind = "text" /\ StillMalformed(worker[f].response.text))
            => Isolated(f)

\* a filing answered with prose was inserted with its price trend
C10_Witness ==
    \E f \in Filings :
        /\ worker[f].response = GeminiResponse("text", <<"prose">>, "clean")
        /\ worker[f].pc = "done"
        /\ worker[f].ptr.k = "num"
        /\ \E row \in RowsOf(ratioStore, f) :
              row.ratios["price_trend_ratio"] = worker[f].ptr

\* the response text is malformed however it is read: as it stands, and
\* after the implementation's own cleaning
MalformedAnyway(t) == Malformed(t) /\ StillMalformed(t)

\* the external computation of filing f is over
ComputationOver(w) == w.pc \in {"insert", "done", "failed"}

\* C11: a filing whose response text was malformed (empty, unparseable or no
\* mapping) has incremented the gemini_errors counter once its external
\* computation is over.
C11_MalformedCounted ==
    \A f \in Filings :
        LET w == worker[f]
        IN  (w.response.kind = "text" /\ MalformedAnyway(w.response.text)
             /\ ComputationOver(w))
                => "gemini_errors" \in w.counted

\* C12: a filing whose price lookup or financial-record query raised on
\* its last attempt ends as failed, is not counted as processed, and has no
\* row of this run in which the price trend (price lookup) or the ratios
\* with data_source 'none' (record query) stand as if no data existed.
C12_BackendFailureNotMissingData ==
    \A f \in Filings :
        LET w == worker[f]
        IN  (Terminal(w) /\ w.exhausted # {}) =>
              /\ w.pc = "failed"
              /\ "processed" \notin w.counted
              /\ \A row \in RowsOf(ratioStore, f) :
                    row.created_at = run =>
                      /\ "price" \in w.exhausted
                            => row.ratios["price_trend_ratio"] # NullV
                      /\ "fetch" \in w.exhausted => row.data_source # "none"

\* a field of the row of the metadata table is NULL
MissingIdentity(fi) ==
    \/ fi.Ticker = None
    \/ fi.AccessionNumber = None
    \/ fi.ReportEndDate = NoDate
    \/ fi.FiledDate = NoDate

\* C13: a filing lacking ticker, accession number, report end date or filed
\* date makes no price lookup, record query, external computation or
\* insert, gets no row, and increments processing_errors and nothing else,
\* once.
C13_InvalidFilingSkipped ==
    /\ \A f \in Filings :
          MissingIdentity(catalog[f]) =>
            /\ worker[f].pc \in {"idle", "queued", "failed"}
            /\ worker[f].response = NoResponse
            /\ worker[f].counted \subseteq {"processing_errors"}
            /\ worker[f].pc = "failed" => worker[f].counted = {"processing_errors"}
            /\ ~\E row \in ratioStore :
                   /\ row.ticker = catalog[f].Ticker
                   /\ row.accession_number = catalog[f].AccessionNumber
    /\ counters.processing_errors =
          Cardinality({ f \in Filings : "processing_errors" \in worker[f].counted })

\* C14: when the prior-period fetch of a filing returned no record,
\* eps_change and revenue_growth are null in the ratios handed to the insert
\* and in the stored row, whatever the response held.
C14_NoPriorNoGrowth ==
    \A f \in Filings :
        LET w == worker[f]
        IN  (AtPersistence(w) /\ w.bq_data.kind = "record"
             /\ w.bq_prior_data.kind = "none") =>
              /\ w.ratios["eps_change"] = NullV
              /\ w.ratios["revenue_growth"] = NullV
              /\ \A row \in RowsOf(ratioStore, f) :
                    row.created_at = run =>
                      /\ row.ratios["eps_change"] = NullV
                      /\ row.ratios["revenue_growth"] = NullV

\* the price block of process_filing is over
PastPriceBlock(w) ==
    w.pc \in {"fetch_cur", "fetch_prior", "gemini", "insert", "done", "failed"}

\* price_on_or_before(filed_date - days) over the price table
PriceOnOrBefore(f, days) ==
    get_price_on_or_before(impl, priceStore, catalog[f].Ticker,
                           catalog[f].FiledDate - days, "ok")

\* the price trend the two prices give
TrendOf(p20, p50) ==
    IF p20.k = "num" /\ p50.k = "num" /\ p50.v # 0
    THEN Num(Quotient(p20.v, p50.v))
    ELSE NullV

\* C16: for every filing with its identity fields, once the price block is
\* over the price trend is price_on_or_before(filed - 20) divided by
\* price_on_or_before(filed - 50), null exactly when one of the two is
\* not found or the second is zero (110 and 100 give 1.10); the ratios
\* handed to the insert and the stored row carry that value whatever the
\* external computation returned.
C16_PriceTrend ==
    \A f \in Filings :
        LET w == worker[f]
            p20 == PriceOnOrBefore(f, 20)
            p50 == PriceOnOrBefore(f, 50)
        IN  (~MissingIdentity(catalog[f]) /\ PastPriceBlock(w)) =>
              /\ w.ptr = TrendOf(p20, p50)
              /\ (p20 = Num(110) /\ p50 = Num(100)) => w.ptr = Num(11000)
              /\ AtPersistence(w) => w.ratios["price_trend_ratio"] = w.ptr
              /\ \A row \in RowsOf(ratioStore, f) :
                    row.created_at = run
                        => row.ratios["price_trend_ratio"] = TrendOf(p20, p50)

\* rows appended to the ratios table during run r
RowsOfRun(r) == { row \in ratioStore : row.created_at = r }

\* C19: in every final summary the processed counter equals the number of
\* rows appended during that run, and every filing that incremented
\* 'processed' in a run has exactly one row appended in that run.
C19_PersistedOnce ==
    /\ \A sm \in summaries :
          sm.counters.processed = Cardinality(RowsOfRun(sm.run))
    /\ \A cr \in credited :
          Cardinality(RowsOf(ratioStore, cr[2]) \cap RowsOfRun(cr[1])) = 1

\* v is outside the range of the ratio and looks like a percentage:
\* 1.5 < |v| <= 200 and v/100 lies in the range
UnrepairedPercentage(v, name) ==
    /\ ~InExpectedRange(v, name)
    /\ Abs(v) > 15000
    /\ Abs(v) <= 2000000
    /\ InExpectedRange(DivideBy100(v), name)

\* C20: no stored row, of the service or of the job, holds a gross_margin,
\* operating_margin, roe or fcf_yield that is outside its range while a
\* hundredth of it, with 1.5 < |v| <= 200, is inside.
C20_UniformScaleValidation ==
    \A row \in ratioStore :
        \A n \in {"gross_margin", "operating_margin", "roe", "fcf_yield"} :
            row.ratios[n].k = "num" => ~UnrepairedPercentage(row.ratios[n].v, n)

\* rows of the ticker the T+-30-day window holds
FallbackWindow ==
    InWindow(rStore, "AAA", TargetDate - FALLBACK_DAYS, TargetDate + FALLBACK_DAYS)

\* C21: a current-period request whose store has no row dated exactly T, and
\* whose queries succeed, returns a row of [T-30, T+30] at the least day
\* distance to T among the rows of that window, and returns not-found
\* without raising when the window is empty.
C21_NarrowFallback ==
    (/\ ResolverReturned
     /\ ~rPrior
     /\ ~HasRecordAt(rStore, "AAA", TargetDate)
     /\ rOc[1] = "ok"
     /\ rOc[2] = "ok") =>
        IF FallbackWindow = {} THEN rOut.kind = "none"
        ELSE /\ rOut.kind = "record"
             /\ \E r \in FallbackWindow : r.date = rOut.date
             /\ \A q \in FallbackWindow :
                   Abs(rOut.date - TargetDate) <= Abs(q.date - TargetDate)

\* balance-sheet rows the current-period resolution of filing f can match
CurrentPeriodRows(f) ==
    InWindow(finStore, catalog[f].Ticker,
             catalog[f].ReportEndDate - FALLBACK_DAYS,
             catalog[f].ReportEndDate + FALLBACK_DAYS)

\* the ten externally computed ratios of a ratio set are null
ExternalRatiosNull(ratios) == \A n \in GeminiRatioNames : ratios[n] = NullV

\* C22: the prior-period resolution and the external computation run only
\* with a current-period record in hand; a filing that reaches the insert
\* without one has called no external computation and hands over a row with
\* the ten external ratios null, data_source 'none' and price_trend_ratio
\* equal to the computed trend; and data_source is 'none', in the row handed
\* over and in every stored row, only when the table holds no current-period
\* row of the filing.
C22_NoDataNoComputation ==
    \A f \in Filings :
        LET w == worker[f]
        IN  /\ w.pc \in {"fetch_prior", "gemini"} => w.bq_data.kind = "record"
            /\ (AtPersistence(w) /\ w.bq_data.kind = "none") =>
                  /\ w.response = NoResponse
                  /\ ExternalRatiosNull(w.ratios)
                  /\ w.ratios["price_trend_ratio"] = w.ptr
                  /\ RowData(f, w).data_source = "none"
            /\ (AtPersistence(w) /\ RowData(f, w).data_source = "none")
                  => CurrentPeriodRows(f) = {}
            /\ \A row \in RowsOf(ratioStore, f) :
                  row.data_source = "none" =>
                      /\ ExternalRatiosNull(row.ratios)
                      /\ CurrentPeriodRows(f) = {}

\* C24: for every ratio name other than gross_margin, operating_margin, roe
\* and fcf_yield, a name without a range included, adjust_ratio_scale returns
\* a finite number unchanged, inside its range or outside it.
C24_OtherRatiosUnchanged ==
    (/\ aOut # Pending
     /\ aName \notin {"gross_margin", "operating_margin", "roe", "fcf_yield"}
     /\ aRaw.k = "num") =>
        aOut = Num(aRaw.v)

\* the service was handed a debt_to_equity of 50, above its range, and kept it
C24_Witness ==
    /\ aImpl = "service"
    /\ aName = "debt_to_equity"
    /\ aRaw = Raw("num", 500000)
    /\ ~InExpectedRange(aRaw.v, aName)
    /\ aOut = Num(500000)

\* C25: for every ratio name, adjust_ratio_scale returns None, and does not
\* raise, when handed None, NaN, an infinity, text that is no number, or a
\* value of a non-numeric type.
C25_UnknownForNonNumbers ==
    (/\ aOut # Pending
     /\ aRaw.k \in {"null", "nan", "inf", "str_bad", "list"}) =>
        aOut = NullV

\* C28: however often a notification is delivered again after a 500, the
\* metadata table holds at most one row of its accession number and each
\* statement table holds the rows of the filing at most once.
C28_RedeliverySafe ==
    \A tb \in TableNames : sTables[tb] <= 1

\* C30: for every ratio name and every input, handing the value the
\* service's adjust_ratio_scale returned to the function again returns that
\* same value: a repaired value and a kept outlier are left as they are.
C30_AdjustIdempotent ==
    (aImpl = "service" /\ aAgain # Pending) => aAgain = aOut

\* a gross margin of 55 was repaired to 0.55 and then adjusted once more
C30_Witness ==
    /\ aImpl = "service"
    /\ aName = "gross_margin"
    /\ aRaw = Raw("num", 550000)
    /\ aOut = Num(5500)
    /\ aAgain = Num(5500)

earlierVars == <<resVars, conVars, sanVars, adjVars, lookVars, subVars, orchVars>>

EarlierIdle ==
    /\ ResolverIdle /\ ConsolidatorIdle /\ SanitizerIdle /\ AdjusterIdle
    /\ LookupIdle /\ SubscriberIdle /\ OrchestratorIdle

ResolverNext ==
    Resolve /\ UNCHANGED <<conVars, sanVars, adjVars, lookVars,
                                      subVars, orchVars, laterVars>>
InitResolver ==
    ResolverInit /\ ConsolidatorIdle /\ SanitizerIdle /\ AdjusterIdle
    /\ LookupIdle /\ SubscriberIdle /\ OrchestratorIdle /\ LaterIdle
SpecResolver == InitResolver /\ [][ResolverNext]_vars

ConsolidatorNext ==
    Consolidate /\ UNCHANGED <<resVars, sanVars, adjVars, lookVars,
                                      subVars, orchVars, laterVars>>
InitConsolidate ==
    ConsolidatorInit /\ ResolverIdle /\ SanitizerIdle /\ AdjusterIdle
    /\ LookupIdle /\ SubscriberIdle /\ OrchestratorIdle /\ LaterIdle
SpecConsolidate == InitConsolidate /\ [][ConsolidatorNext]_vars

SanitizerNext ==
    Sanitize /\ UNCHANGED <<resVars, conVars, adjVars, lookVars,
                                      subVars, orchVars, laterVars>>
InitSanitize ==
    SanitizerInit /\ ResolverIdle /\ ConsolidatorIdle /\ AdjusterIdle
    /\ LookupIdle /\ SubscriberIdle /\ OrchestratorIdle /\ LaterIdle
SpecSanitize == InitSanitize /\ [][SanitizerNext]_vars

\* adjust_ratio_scale over sampled names and values
AdjusterNext ==
    \/ Adjust /\ UNCHANGED <<resVars, conVars, sanVars, lookVars, subVars,
                             orchVars, laterVars>>
    \/ AdjustAgain /\ UNCHANGED <<resVars, conVars, sanVars, lookVars, subVars,
                                  orchVars, laterVars>>
InitAdjust ==
    AdjusterInit /\ ResolverIdle /\ ConsolidatorIdle /\ SanitizerIdle
    /\ LookupIdle /\ SubscriberIdle /\ OrchestratorIdle /\ LaterIdle
SpecAdjust == InitAdjust /\ [][AdjusterNext]_vars

\* get_price_on_or_before over sampled price tables
LookupNext ==
    LookupAttempt /\ UNCHANGED <<resVars, conVars, sanVars, adjVars, subVars,
                                 orchVars, laterVars>>
InitLookup ==
    LookupInit /\ ResolverIdle /\ ConsolidatorIdle /\ SanitizerIdle
    /\ AdjusterIdle /\ SubscriberIdle /\ OrchestratorIdle /\ LaterIdle
SpecLookup == InitLookup /\ [][LookupNext]_vars

\* one push request to the subscriber endpoint
SubscriberNext ==
    Handle /\ UNCHANGED <<resVars, conVars, sanVars, adjVars, lookVars, orchVars, laterVars>>
InitSubscriber ==
    SubscriberInit /\ ResolverIdle /\ ConsolidatorIdle /\ SanitizerIdle
    /\ AdjusterIdle /\ LookupIdle /\ OrchestratorIdle /\ LaterIdle
SpecSubscriber == InitSubscriber /\ [][SubscriberNext]_vars

exceptCounters == <<earlierVars, lisVars, rateVars>>
exceptListener == <<earlierVars, lockVars, rateVars>>
exceptRateLimiter == <<earlierVars, lockVars, lisVars>>

\* the threads of one run incrementing the shared counters
CountersNext ==
    \/ \E t \in Threads : Acquire(t) /\ UNCHANGED exceptCounters
    \/ \E t \in Threads : Load(t) /\ UNCHANGED exceptCounters
    \/ \E t \in Threads : Store(t) /\ UNCHANGED exceptCounters
    \/ \E t \in Threads : Release(t) /\ UNCHANGED exceptCounters
    \/ \E f \in Workers : TakeResult(f) /\ UNCHANGED exceptCounters
InitCounters ==
    CountersInit /\ EarlierIdle /\ ListenerIdle /\ RateLimiterIdle
SpecCounters == InitCounters /\ [][CountersNext]_vars

\* one run of the listener task
ListenerNext ==
    \/ Signal /\ UNCHANGED exceptListener
    \/ LoopTest /\ UNCHANGED exceptListener
    \/ ConnectAttempt /\ UNCHANGED exceptListener
    \/ Recv /\ UNCHANGED exceptListener
InitListener ==
    ListenerInit /\ EarlierIdle /\ CountersIdle /\ RateLimiterIdle
SpecListener == InitListener /\ [][ListenerNext]_vars

\* calls of acquire() on one limiter as the clock runs
RateLimiterNext ==
    \/ Tick /\ UNCHANGED exceptRateLimiter
    \/ \E c \in Calls : EnterAcquire(c) /\ UNCHANGED exceptRateLimiter
    \/ \E c \in Calls : WakeAcquire(c) /\ UNCHANGED exceptRateLimiter
InitRateLimiter ==
    RateLimiterInit /\ EarlierIdle /\ CountersIdle /\ ListenerIdle
SpecRateLimiter == InitRateLimiter /\ [][RateLimiterNext]_vars

\* the other machines at rest
MachinesIdle ==
    ResolverIdle /\ ConsolidatorIdle /\ SanitizerIdle /\ AdjusterIdle
    /\ LookupIdle /\ SubscriberIdle /\ LaterIdle

\* a batch run over several filings
InitPipeline == OrchestratorInit("batch") /\ MachinesIdle
SpecPipeline == InitPipeline /\ [][OrchestratorNext]_vars

\* the same, every thread and every external call making progress
FairPipeline == SpecPipeline /\ WF_vars(OrchestratorNext)

\* one filing, with the full range of stored data and of responses
InitFiling == OrchestratorInit("single") /\ MachinesIdle
SpecFiling == InitFiling /\ [][OrchestratorNext]_vars
====
